---- MODULE Spec2Model ----
(***************************************************************************)
(* Session lifecycle and abuse control of the security middleware library: *)
(*   InMemorySessionStore / SessionManager  (src/auth/sessionManagement.ts)*)
(*   RateLimiter / BruteForceProtection     (src/protection/rateLimiter.ts)*)
(*   ConfigManager                          (src/utils/config.ts)          *)
(*   PasswordResetManager                   (src/auth/passwordReset.ts)    *)
(*   TwoFactorAuthManager                   (src/auth/twoFactorAuth.ts)    *)
(*   AuthHelpers.authenticate                                              *)
(*                                                                         *)
(* Time is Date.now() in milliseconds.  One call reads the clock once: the *)
(* handlers are synchronous (or resolve without yielding to a timer), so   *)
(* every Date.now() inside one call is modelled as the same instant.       *)
(* The clock starts at 1: Date.now() is never 0 in a running process,      *)
(* which matters where the code tests a timestamp for truthiness.          *)
(***************************************************************************)
EXTENDS Integers, Sequences, FiniteSets, TLC

\* ---------------------------------------------------------------- bounds
MaxTime == 4
MaxIds == 2
MaxCount == 3
MaxWindow == 2
MaxRequests == 2
MaxAttempts == 2
MaxLockout == 2
\* sessions created while requests go through the session middleware
MaxMwIds == 1
\* reset tokens generated
MaxTokens == 2
\* backup codes in a generated list (the code generates 8)
MaxCodes == 2

Ids == 1..MaxIds
\* the values getConfig().sessionTTL is configured with
TTLs == {1, 2}

\* the arguments the calls are made with
Users == {"u1", "u2"}
DataInputs == { [k \in {"a", "b"} |-> 1] }
PartialInputs == { [k \in {"a"} |-> 1] }
Clients == {"c1", "c2"}
\* requests: with req.ip, with only req.connection.remoteAddress, with neither
Requests ==
  { [ip |-> "c1", remoteAddress |-> "c2", path |-> "/login"],
    [ip |-> "", remoteAddress |-> "c2", path |-> "/login"],
    [ip |-> "", remoteAddress |-> "", path |-> "/login"] }
\* session data whose values are objects, and partial data that overwrite a
\* key with a smaller object, overwrite one key and add another, or are empty
ObjectInputs == { [k \in {"a", "b"} |-> [x |-> 1, y |-> 1]] }
MergeInputs ==
  { [k \in {"a"} |-> [x |-> 2]],
    [k \in {"b", "c"} |-> [x |-> 2]],
    [k \in {} |-> [x |-> 2]] }

\* the rule lists a RateLimiter is constructed with: one rule, or two rules
\* with different or with equal windows (the stricter rule last or first)
Rule(w, m) == [windowMs |-> w, maxRequests |-> m]
RuleLists ==
  { <<Rule(w, m)>> : w \in 1..MaxWindow, m \in 1..MaxRequests }
  \cup { <<Rule(1, 1), Rule(MaxWindow, MaxRequests)>>,
         <<Rule(MaxWindow, MaxRequests), Rule(MaxWindow, 1)>>,
         <<Rule(MaxWindow, 1), Rule(MaxWindow, MaxRequests)>> }

\* ---------------------------------------------------------------- state
VARIABLES
  now,          \* Date.now()
  sessionTTL,   \* getConfig().sessionTTL
  sessions,     \* InMemorySessionStore.sessions : id -> Session
  issued,       \* ids randomBytes(32) has produced so far
  mgrStorage,   \* SessionManager.rateLimiter.storage
  call,         \* the last call: its name, arguments and time
  ret,          \* what the last call returned (or threw)
  dead,         \* history: ids seen stored with now > expiresAt, or deleted
  sched,        \* history: id -> time of creation or of the last refresh,
                \*   for the ids refreshed on schedule and never deleted
  exercised,    \* history: how many of the manager's operations, taken in
                \*   the order of ManagerOps, have been called so far
  mw,           \* the session middleware invocation in flight: its position,
                \*   req.cookies.sessionId, req.session, the calls of next()
  pending,      \* the store.update call suspended at its await, if any: its
                \*   arguments and the session object its get returned
  rules,        \* RateLimiter.rules
  storage,      \* RateLimiter.storage : key -> RateLimitInfo
  maxAttempts,      \* BruteForceProtection.maxAttempts
  lockoutDuration,  \* BruteForceProtection.lockoutDuration
  failedAttempts,   \* BruteForceProtection.failedAttempts : identifier -> count
  lastAttemptTime,  \* BruteForceProtection.lastAttemptTime : identifier -> time
  bfHist,       \* history: identifier -> failures recorded since the last
                \*   reset or purge, and the time of the last one
  afterReset,   \* history: identifiers reset and not failed since
  config,       \* ConfigManager.config, its fields other than sessionTTL
  nodeEnv,      \* process.env.NODE_ENV
  passwordResetTTL, \* PasswordResetManager.config.passwordResetTTL
  tokens,       \* PasswordResetManager.tokens : token -> PasswordResetToken
  tokenLog,     \* history: token -> the userId and the time it was generated with
  consumed,     \* history: tokens a resetPassword call has deleted
  secrets,      \* TwoFactorAuthManager.secrets : userId -> TwoFactorSecret
  usedCodes     \* history: userId -> backup codes accepted since the user's
                \*   last generateSecret

sessVars == <<sessionTTL, sessions, issued, mgrStorage, dead, sched, mw, pending, exercised>>
rlVars == <<rules, storage>>
bfVars == <<maxAttempts, lockoutDuration, failedAttempts, lastAttemptTime, bfHist, afterReset>>
cfgVars == <<config, nodeEnv>>
prVars == <<passwordResetTTL, tokens, tokenLog, consumed>>
tfVars == <<secrets, usedCodes>>
authVars == <<prVars, tfVars>>
vars == <<now, call, ret, sessVars, rlVars, bfVars, cfgVars, authVars>>

\* ---------------------------------------------------------------- results
NullRet == [kind |-> "null"]
VoidRet == [kind |-> "void"]
SessionRet(s) == [kind |-> "session", session |-> s]
BoolRet(b) == [kind |-> "bool", value |-> b]
ErrorRet(m) == [kind |-> "error", message |-> m]
StringRet(v) == [kind |-> "string", value |-> v]
\* a string[]
ListRet(l) == [kind |-> "list", value |-> l]
\* a Promise that resolves to v
Promise(v) == [kind |-> "promise", value |-> v]
\* what a synchronous middleware did with a request: the calls of next(),
\* and the status and the error of the body { error } it sent (0, "" if none)
HandledRet(n, status, error) ==
  [kind |-> "handled", next |-> n, status |-> status, error |-> error]
\* req.session before the middleware has assigned it
Undefined == [kind |-> "undefined"]

\* new Map()
EmptyMap == [k \in {} |-> 0]

\* Map.delete(key)
MapDelete(m, key) == [k \in DOMAIN m \ {key} |-> m[k]]

\* Map.set(key, value)
MapSet(m, key, value) == [k \in DOMAIN m \cup {key} |-> IF k = key THEN value ELSE m[k]]

\* { ...a, ...b }
Spread_Deep(a, b) ==
  [k \in DOMAIN a \cup DOMAIN b |->
     IF k \in DOMAIN a /\ k \in DOMAIN b
     THEN [f \in DOMAIN a[k] \cup DOMAIN b[k] |->
             IF f \in DOMAIN b[k] THEN b[k][f] ELSE a[k][f]]
     ELSE IF k \in DOMAIN b THEN b[k] ELSE a[k]]
Spread(a, b) == [k \in DOMAIN a \cup DOMAIN b |-> IF k \in DOMAIN b THEN b[k] ELSE a[k]]

\* the partial configurations updateConfig is called with: other fields with
\* accepted and with rejected values, the secrets, nothing, and sessionTTL
\* with positive, zero and negative values
TTLUpdates == { [k \in {"sessionTTL"} |-> t] : t \in TTLs \cup {0, -1} }
ConfigUpdates ==
  { [k \in {"jwtExpiresIn"} |-> "2h"],
    [jwtExpiresIn |-> "1h", bcryptSaltRounds |-> 12],
    [k \in {"bcryptSaltRounds"} |-> 5],
    [k \in {"passwordPolicy"} |-> [minLength |-> 6, requireUppercase |-> TRUE]],
    [k \in {"passwordPolicy"} |-> [minLength |-> 10, requireUppercase |-> FALSE]],
    [jwtSecret |-> "s3cret", encryptionSecret |-> "k3y"],
    [jwtSecret |-> "your-secret-key", jwtExpiresIn |-> "2h"],
    [sessionTTL |-> 2, bcryptSaltRounds |-> 9],
    [k \in {} |-> 0] }
  \cup TTLUpdates

\* the values getConfig().passwordResetTTL is configured with
ResetTTLs == {1, 2}
\* the tokens randomBytes(32).toString("hex") produces, and the tokens
\* verifyResetToken and resetPassword are called with
ResetTokens == 1..MaxTokens
\* the users tokens are generated for: a user id, and the empty string
ResetUsers == {"u1", ""}
\* new passwords: what the policy looks at, that is the length and whether
\* an uppercase letter occurs
Passwords ==
  { [length |-> 4, uppercase |-> FALSE],
    [length |-> 12, uppercase |-> FALSE],
    [length |-> 12, uppercase |-> TRUE] }

\* the values randomBytes(4).toString("hex") produces for backup codes: one
\* more than a list holds, so that some code is in no list
CodeValues == 1..(MaxCodes + 1)
\* the lists generateBackupCodes produces: MaxCodes draws, taken as distinct
BackupCodeLists ==
  { l \in [1..MaxCodes -> CodeValues] : \A i, j \in 1..MaxCodes : l[i] = l[j] => i = j }
\* the value randomBytes(10).toString("hex") produces for a secret (no
\* modelled call reads it)
SecretValues == {"s1"}

\* bcrypt.hash(password, rounds), and the user findUser knows
Hash(password) == <<"bcrypt", password>>
KnownUser == [id |-> "1", username |-> "alice", password |-> Hash("pw"), role |-> "user"]
\* what findUser(username) does: resolves to null, resolves to the user, rejects
FindUserOutcomes == {"null", "user", "rejects"}
\* login requests: identified by req.ip or by req.connection.remoteAddress,
\* with and without username and password in the body, with the right and
\* with a wrong password
AuthRequests ==
  { [ip |-> "c1", remoteAddress |-> "c2", body |-> b] :
      b \in { [username |-> "alice", password |-> "pw"],
              [username |-> "alice", password |-> "bad"],
              [username |-> "alice", password |-> ""],
              [username |-> "", password |-> "pw"] } }
  \cup { [ip |-> "", remoteAddress |-> "c2",
          body |-> [username |-> "alice", password |-> "bad"]] }

\* partial data that overwrite one key of ObjectInputs
OverwriteInputs == { [k \in {"a"} |-> [x |-> 2]] }

\* ------------------------------------------------ ConfigManager
\* defaultConfig, with no JWT_SECRET / ENCRYPTION_SECRET in the environment
\* (sessionTTL is the variable of that name)
defaultConfig ==
  [jwtSecret |-> "", encryptionSecret |-> "", jwtExpiresIn |-> "1h",
   bcryptSaltRounds |-> 10,
   passwordPolicy |-> [minLength |-> 8, requireUppercase |-> TRUE]]

\* getConfig(): the whole configuration
getConfig(cfg, ttl) ==
  [k \in DOMAIN cfg \cup {"sessionTTL"} |-> IF k = "sessionTTL" THEN ttl ELSE cfg[k]]

\* validateConfig: the message of the Error it throws, "" when it returns
validateConfig_NoRounds(c, env) ==
  IF env # "test" /\ (c.jwtSecret = "" \/ c.jwtSecret = "your-secret-key")
  THEN "JWT secret must be set to a secure value"
  ELSE IF env # "test" /\ (c.encryptionSecret = ""
                             \/ c.encryptionSecret = "your-encryption-secret-key")
  THEN "Encryption secret must be set to a secure value"
  ELSE IF c.passwordPolicy.minLength < 8
  THEN "Minimum password length should be at least 8 characters"
  ELSE ""
validateConfig(c, env) ==
  IF env # "test" /\ (c.jwtSecret = "" \/ c.jwtSecret = "your-secret-key")
  THEN "JWT secret must be set to a secure value"
  ELSE IF env # "test" /\ (c.encryptionSecret = ""
                             \/ c.encryptionSecret = "your-encryption-secret-key")
  THEN "Encryption secret must be set to a secure value"
  ELSE IF c.bcryptSaltRounds < 10
  THEN "bcryptSaltRounds should be at least 10"
  ELSE IF c.passwordPolicy.minLength < 8
  THEN "Minimum password length should be at least 8 characters"
  ELSE ""

\* updateConfig: the configuration after the call and the message of the
\* Error thrown ("" when the call returns)
ConfigManager_updateConfig(c, newConfig, env) ==
  LET updatedConfig == Spread(c, newConfig)
      error == validateConfig(updatedConfig, env)
  IN IF error = ""
     THEN [config |-> updatedConfig, error |-> ""]
     ELSE [config |-> c, error |-> error]

\* ------------------------------------------------ errors
\* new SecurityLibraryError(message, statusCode): .message is the message
SecurityLibraryError(message, statusCode) ==
  [message |-> message, statusCode |-> statusCode]

\* req.ip || req.connection.remoteAddress || "unknown"
getClientIdentifier(req) ==
  IF req.ip # "" THEN req.ip
  ELSE IF req.remoteAddress # "" THEN req.remoteAddress
  ELSE "unknown"

\* ------------------------------------------------ PasswordPolicyEnforcer
\* enforcePolicy, an async function: the Promise of the list of messages.
\* Of its checks the model keeps the length and the uppercase check.
PasswordPolicyEnforcer_enforcePolicy(password, policy) ==
  Promise(
    (IF password.length < policy.minLength
     THEN << "Password must be at least " \o ToString(policy.minLength)
               \o " characters long." >>
     ELSE << >>)
    \o
    (IF policy.requireUppercase /\ ~password.uppercase
     THEN << "Password must contain at least one uppercase letter." >>
     ELSE << >>))

\* x.length: the length of an array; undefined for a Promise, which has no
\* such property
Number(n) == [kind |-> "number", value |-> n]
LengthOf(x) == IF x.kind = "list" THEN Number(Len(x.value)) ELSE Undefined

\* x > n: false when x is undefined (undefined converts to NaN)
GreaterThan(x, n) == x.kind = "number" /\ x.value > n

\* ------------------------------------------------ PasswordResetManager
\* generateResetToken: the token table after the call
PasswordReset_generateResetToken(tk, token, userId, t, ttl) ==
  MapSet(tk, token, [token |-> token, userId |-> userId, expiresAt |-> t + ttl])

\* verifyResetToken: the userId, or null
PasswordReset_verifyResetToken_LE(tk, token, t) ==
  IF token \notin DOMAIN tk \/ tk[token].expiresAt <= t
  THEN NullRet
  ELSE StringRet(tk[token].userId)
PasswordReset_verifyResetToken(tk, token, t) ==
  IF token \notin DOMAIN tk \/ tk[token].expiresAt < t
  THEN NullRet
  ELSE StringRet(tk[token].userId)

\* resetPassword: the token table after the call and the value returned.
\* !userId holds for null and for the empty string; policyErrors is what
\* enforcePolicy returns, taken without await
PasswordReset_resetPassword(tk, token, newPassword, t, policy) ==
  LET userId == PasswordReset_verifyResetToken(tk, token, t)
      policyErrors == PasswordPolicyEnforcer_enforcePolicy(newPassword, policy)
  IN IF userId = NullRet \/ userId = StringRet("")
     THEN [tokens |-> tk, ret |-> ListRet(<< "Invalid or expired reset token" >>)]
     ELSE IF GreaterThan(LengthOf(policyErrors), 0)
     THEN [tokens |-> tk, ret |-> policyErrors]
     ELSE [tokens |-> MapDelete(tk, token), ret |-> ListRet(<< >>)]

\* cleanupExpiredTokens: resetToken.expiresAt < now
PasswordReset_cleanupExpiredTokens(tk, t) ==
  [k \in {j \in DOMAIN tk : ~(tk[j].expiresAt < t)} |-> tk[k]]

\* ------------------------------------------------ TwoFactorAuthManager
\* Array.indexOf: the (0-based) index of the first occurrence, or -1
IndexOf(a, x) ==
  IF \E i \in 1..Len(a) : a[i] = x
  THEN (CHOOSE i \in 1..Len(a) : a[i] = x /\ \A j \in 1..(i - 1) : a[j] # x) - 1
  ELSE -1

\* Array.splice(index, 1): the array without the element at index
Splice1(a, index) ==
  [i \in 1..(Len(a) - 1) |-> IF i <= index THEN a[i] ELSE a[i + 1]]

\* generateSecret: the secrets map after the call
TwoFactor_generateSecret(sec, userId, secret, backupCodes) ==
  MapSet(sec, userId, [userId |-> userId, secret |-> secret, backupCodes |-> backupCodes])

\* useBackupCode: the secrets map after the call and the value returned
TwoFactor_useBackupCode_Keep(sec, userId, code) ==
  IF userId \notin DOMAIN sec THEN [secrets |-> sec, ret |-> FALSE]
  ELSE IF IndexOf(sec[userId].backupCodes, code) = -1 THEN [secrets |-> sec, ret |-> FALSE]
  ELSE [secrets |-> sec, ret |-> TRUE]
TwoFactor_useBackupCode(sec, userId, code) ==
  IF userId \notin DOMAIN sec THEN [secrets |-> sec, ret |-> FALSE]
  ELSE LET index == IndexOf(sec[userId].backupCodes, code) IN
    IF index = -1 THEN [secrets |-> sec, ret |-> FALSE]
    ELSE [secrets |-> [sec EXCEPT ![userId].backupCodes = Splice1(@, index)],
          ret |-> TRUE]

\* ------------------------------------------------ RateLimiter
\* storage key `${clientId}:${rule.windowMs}`: windowMs prints as digits, so
\* the string determines the pair and the pair stands for it
Key(clientId, rule) == <<clientId, rule.windowMs>>

\* cleanup: now > limitInfo.resetTime
RateLimiter_cleanup_GE(st, t) == [k \in {j \in DOMAIN st : ~(t >= st[j].resetTime)} |-> st[k]]
RateLimiter_cleanup(st, t) == [k \in {j \in DOMAIN st : ~(t > st[j].resetTime)} |-> st[k]]

\* the body of rules.forEach for one rule; acc is the storage and the
\* isAllowed flag so far
RuleStep_GE(acc, clientId, rule, t) ==
  LET key == Key(clientId, rule)
      info == IF key \in DOMAIN acc.storage THEN acc.storage[key]
              ELSE [count |-> 0, resetTime |-> t + rule.windowMs]
      upd == IF t > info.resetTime
             THEN [count |-> 1, resetTime |-> t + rule.windowMs]
             ELSE [count |-> info.count + 1, resetTime |-> info.resetTime]
  IN [storage |-> MapSet(acc.storage, key, upd),
      allowed |-> IF upd.count >= rule.maxRequests THEN FALSE ELSE acc.allowed]
RuleStep_Sliding(acc, clientId, rule, t) ==
  LET key == Key(clientId, rule)
      info == IF key \in DOMAIN acc.storage THEN acc.storage[key]
              ELSE [count |-> 0, resetTime |-> t + rule.windowMs]
      upd == [count |-> info.count + 1, resetTime |-> t + rule.windowMs]
  IN [storage |-> MapSet(acc.storage, key, upd),
      allowed |-> IF upd.count > rule.maxRequests THEN FALSE ELSE acc.allowed]
RuleStep(acc, clientId, rule, t) ==
  LET key == Key(clientId, rule)
      info == IF key \in DOMAIN acc.storage THEN acc.storage[key]
              ELSE [count |-> 0, resetTime |-> t + rule.windowMs]
      upd == IF t > info.resetTime
             THEN [count |-> 1, resetTime |-> t + rule.windowMs]
             ELSE [count |-> info.count + 1, resetTime |-> info.resetTime]
  IN [storage |-> MapSet(acc.storage, key, upd),
      allowed |-> IF upd.count > rule.maxRequests THEN FALSE ELSE acc.allowed]

RECURSIVE ForEachRule(_, _, _, _, _)
ForEachRule(acc, rs, i, clientId, t) ==
  IF i > Len(rs) THEN acc
  ELSE ForEachRule(RuleStep(acc, clientId, rs[i], t), rs, i + 1, clientId, t)

\* isAllowed: the storage after the call and the value returned
RateLimiter_isAllowed(st, rs, clientId, t) ==
  ForEachRule([storage |-> RateLimiter_cleanup(st, t), allowed |-> TRUE], rs, 1, clientId, t)

RateLimiter_reset(st, rs, clientId) ==
  [k \in DOMAIN st \ {Key(clientId, rs[i]) : i \in 1..Len(rs)} |-> st[k]]

\* middleware: the storage after the request and what was done with it
RateLimiter_middleware_FailOpen(st, rs, req, t) ==
  [storage |-> RateLimiter_isAllowed(st, rs, getClientIdentifier(req), t).storage,
   ret |-> HandledRet(1, 0, "")]
RateLimiter_middleware(st, rs, req, t) ==
  LET r == RateLimiter_isAllowed(st, rs, getClientIdentifier(req), t)
      error == SecurityLibraryError("Rate limit exceeded", 429)
  IN [storage |-> r.storage,
      ret |-> IF r.allowed THEN HandledRet(1, 0, "")
              ELSE HandledRet(0, 429, error.message)]

\* new RateLimiter([{ windowMs: 60000, maxRequests: 10 }])
MgrRules == << [windowMs |-> 60000, maxRequests |-> 10] >>

\* ------------------------------------------------ BruteForceProtection
\* (this.failedAttempts.get(identifier) || 0)
Attempts(fa, identifier) == IF identifier \in DOMAIN fa THEN fa[identifier] ELSE 0

\* recordFailedAttempt: the two maps after the call
BruteForce_recordFailedAttempt_FirstTime(fa, lt, identifier, t) ==
  [failedAttempts |-> MapSet(fa, identifier, Attempts(fa, identifier) + 1),
   lastAttemptTime |-> IF identifier \in DOMAIN lt THEN lt
                       ELSE MapSet(lt, identifier, t)]
BruteForce_recordFailedAttempt(fa, lt, identifier, t) ==
  [failedAttempts |-> MapSet(fa, identifier, Attempts(fa, identifier) + 1),
   lastAttemptTime |-> MapSet(lt, identifier, t)]

BruteForce_resetAttempts_CountOnly(fa, lt, identifier) ==
  [failedAttempts |-> MapDelete(fa, identifier),
   lastAttemptTime |-> lt]
BruteForce_resetAttempts(fa, lt, identifier) ==
  [failedAttempts |-> MapDelete(fa, identifier),
   lastAttemptTime |-> MapDelete(lt, identifier)]

\* clearExpiredLockouts: lastAttemptTime && attempts >= maxAttempts &&
\* now - lastAttemptTime > lockoutDuration   (0 and undefined are falsy)
LockoutExpired_AnyCount(fa, lt, identifier, t, maxA, lockout) ==
  /\ identifier \in DOMAIN lt
  /\ lt[identifier] # 0
  /\ t - lt[identifier] > lockout
LockoutExpired_GE(fa, lt, identifier, t, maxA, lockout) ==
  /\ identifier \in DOMAIN lt
  /\ lt[identifier] # 0
  /\ fa[identifier] >= maxA
  /\ t - lt[identifier] >= lockout
LockoutExpired(fa, lt, identifier, t, maxA, lockout) ==
  /\ identifier \in DOMAIN lt
  /\ lt[identifier] # 0
  /\ fa[identifier] >= maxA
  /\ t - lt[identifier] > lockout

BruteForce_clearExpiredLockouts(fa, lt, t, maxA, lockout) ==
  LET gone == {i \in DOMAIN fa : LockoutExpired(fa, lt, i, t, maxA, lockout)}
  IN [failedAttempts |-> [i \in DOMAIN fa \ gone |-> fa[i]],
      lastAttemptTime |-> [i \in DOMAIN lt \ gone |-> lt[i]]]

\* isAllowed: the two maps after the call and the value returned
BruteForce_isAllowed_LE(fa, lt, identifier, t, maxA, lockout) ==
  LET c == BruteForce_clearExpiredLockouts(fa, lt, t, maxA, lockout)
  IN [failedAttempts |-> c.failedAttempts,
      lastAttemptTime |-> c.lastAttemptTime,
      allowed |-> Attempts(c.failedAttempts, identifier) <= maxA]
BruteForce_isAllowed(fa, lt, identifier, t, maxA, lockout) ==
  LET c == BruteForce_clearExpiredLockouts(fa, lt, t, maxA, lockout)
  IN [failedAttempts |-> c.failedAttempts,
      lastAttemptTime |-> c.lastAttemptTime,
      allowed |-> Attempts(c.failedAttempts, identifier) < maxA]

\* middleware: the two maps after the request and what was done with it
BruteForce_middleware_429(fa, lt, req, t, maxA, lockout) ==
  LET r == BruteForce_isAllowed(fa, lt, getClientIdentifier(req), t, maxA, lockout)
  IN [failedAttempts |-> r.failedAttempts,
      lastAttemptTime |-> r.lastAttemptTime,
      ret |-> IF r.allowed THEN HandledRet(1, 0, "")
              ELSE HandledRet(0, 429, "Account temporarily locked")]
BruteForce_middleware(fa, lt, req, t, maxA, lockout) ==
  LET r == BruteForce_isAllowed(fa, lt, getClientIdentifier(req), t, maxA, lockout)
      error == SecurityLibraryError("Account temporarily locked", 403)
  IN [failedAttempts |-> r.failedAttempts,
      lastAttemptTime |-> r.lastAttemptTime,
      ret |-> IF r.allowed THEN HandledRet(1, 0, "")
              ELSE HandledRet(0, 403, error.message)]

\* ------------------------------------------------ AuthHelpers
\* verifyPassword: bcrypt.compare(password, hash)
verifyPassword(password, hash) == hash = Hash(password)

\* the handler authenticate(findUser) returns: the limiter's storage and the
\* brute-force maps after the request, what was done with the request, and
\* the calls made on the limiter, findUser, the brute-force protection and
\* next, in order.  found is what findUser does when it is called.
AuthHelpers_authenticate_NoReset(st, rs, fa, lt, req, found, t) ==
  LET clientId == getClientIdentifier(req)
      rl == RateLimiter_isAllowed(st, rs, clientId, t)
  IN IF ~rl.allowed
     THEN [storage |-> rl.storage, failedAttempts |-> fa, lastAttemptTime |-> lt,
           ret |-> HandledRet(0, 429, "Too many authentication attempts"),
           trace |-> << "isAllowed" >>]
     ELSE IF req.body.username = "" \/ req.body.password = ""
     THEN [storage |-> rl.storage, failedAttempts |-> fa, lastAttemptTime |-> lt,
           ret |-> HandledRet(0, 400, "Username and password are required"),
           trace |-> << "isAllowed" >>]
     ELSE IF found = "rejects"
     THEN [storage |-> rl.storage, failedAttempts |-> fa, lastAttemptTime |-> lt,
           ret |-> HandledRet(0, 500, "Internal server error"),
           trace |-> << "isAllowed", "findUser" >>]
     ELSE IF found = "null" \/ ~verifyPassword(req.body.password, KnownUser.password)
     THEN LET bf == BruteForce_recordFailedAttempt(fa, lt, clientId, t) IN
          [storage |-> rl.storage, failedAttempts |-> bf.failedAttempts,
           lastAttemptTime |-> bf.lastAttemptTime,
           ret |-> HandledRet(0, 401, "Invalid credentials"),
           trace |-> << "isAllowed", "findUser", "recordFailedAttempt" >>]
     ELSE [storage |-> rl.storage, failedAttempts |-> fa, lastAttemptTime |-> lt,
           ret |-> HandledRet(1, 0, ""),
           trace |-> << "isAllowed", "findUser", "next" >>]
AuthHelpers_authenticate_Locked(st, rs, fa, lt, req, found, t) ==
  LET clientId == getClientIdentifier(req)
      rl == RateLimiter_isAllowed(st, rs, clientId, t)
      bf == BruteForce_isAllowed(fa, lt, clientId, t, MaxAttempts, MaxLockout)
  IN IF ~rl.allowed \/ ~bf.allowed
     THEN [storage |-> rl.storage, failedAttempts |-> bf.failedAttempts,
           lastAttemptTime |-> bf.lastAttemptTime,
           ret |-> HandledRet(0, 429, "Too many authentication attempts"),
           trace |-> << "isAllowed" >>]
     ELSE AuthHelpers_authenticate_NoReset(st, rs, bf.failedAttempts, bf.lastAttemptTime,
                                           req, found, t)
AuthHelpers_authenticate(st, rs, fa, lt, req, found, t) ==
  LET clientId == getClientIdentifier(req)
      rl == RateLimiter_isAllowed(st, rs, clientId, t)
  IN IF ~rl.allowed
     THEN [storage |-> rl.storage, failedAttempts |-> fa, lastAttemptTime |-> lt,
           ret |-> HandledRet(0, 429,
                              SecurityLibraryError("Too many authentication attempts",
                                                   429).message),
           trace |-> << "isAllowed" >>]
     ELSE IF req.body.username = "" \/ req.body.password = ""
     THEN LET error == SecurityLibraryError("Username and password are required", 400) IN
          [storage |-> rl.storage, failedAttempts |-> fa, lastAttemptTime |-> lt,
           ret |-> HandledRet(0, error.statusCode, error.message),
           trace |-> << "isAllowed" >>]
     ELSE IF found = "rejects"
     THEN [storage |-> rl.storage, failedAttempts |-> fa, lastAttemptTime |-> lt,
           ret |-> HandledRet(0, 500, "Internal server error"),
           trace |-> << "isAllowed", "findUser" >>]
     ELSE IF found = "null" \/ ~verifyPassword(req.body.password, KnownUser.password)
     THEN LET bf == BruteForce_recordFailedAttempt(fa, lt, clientId, t)
              error == SecurityLibraryError("Invalid credentials", 401) IN
          [storage |-> rl.storage, failedAttempts |-> bf.failedAttempts,
           lastAttemptTime |-> bf.lastAttemptTime,
           ret |-> HandledRet(0, error.statusCode, error.message),
           trace |-> << "isAllowed", "findUser", "recordFailedAttempt" >>]
     ELSE LET bf == BruteForce_resetAttempts(fa, lt, clientId) IN
          [storage |-> rl.storage, failedAttempts |-> bf.failedAttempts,
           lastAttemptTime |-> bf.lastAttemptTime,
           ret |-> HandledRet(1, 0, ""),
           trace |-> << "isAllowed", "findUser", "resetAttempts", "next" >>]

\* ------------------------------------------------ InMemorySessionStore
\* create: the record built from the arguments, the clock and the configuration
NewSession(id, userId, data, t, ttl) ==
  [id |-> id, userId |-> userId, createdAt |-> t, expiresAt |-> t + ttl, data |-> data]

Store_create(sess, id, userId, data, t, ttl) ==
  MapSet(sess, id, NewSession(id, userId, data, t, ttl))

\* session.expiresAt < Date.now()
IsExpired_LE(s, t) == s.expiresAt <= t
IsExpired(s, t) == s.expiresAt < t

Store_delete_Clear(sess, id) == [k \in {} |-> sess[k]]
Store_delete(sess, id) == MapDelete(sess, id)

\* get: the table after the call and the value returned
Store_get(sess, id, t) ==
  IF id \notin DOMAIN sess THEN [store |-> sess, ret |-> NullRet]
  ELSE IF IsExpired(sess[id], t)
       THEN [store |-> Store_delete(sess, id), ret |-> NullRet]
       ELSE [store |-> sess, ret |-> SessionRet(sess[id])]

Store_update_Renew(sess, id, data, t) ==
  LET g == Store_get(sess, id, t) IN
    IF g.ret.kind = "session"
    THEN MapSet(g.store, id, [g.ret.session EXCEPT !.data = Spread(@, data),
                                !.expiresAt = t + (@ - g.ret.session.createdAt)])
    ELSE g.store
Store_update(sess, id, data, t) ==
  LET g == Store_get(sess, id, t) IN
    IF g.ret.kind = "session"
    THEN MapSet(g.store, id, [g.ret.session EXCEPT !.data = Spread(@, data)])
    ELSE g.store

Store_cleanup_None(sess, t) == sess
Store_cleanup_LE(sess, t) == [i \in {j \in DOMAIN sess : ~(sess[j].expiresAt <= t)} |-> sess[i]]
Store_cleanup(sess, t) == [i \in {j \in DOMAIN sess : ~(sess[j].expiresAt < t)} |-> sess[i]]

Store_refresh_FromCreation(sess, id, t, ttl) ==
  IF id \in DOMAIN sess
  THEN MapSet(sess, id, [sess[id] EXCEPT !.expiresAt = sess[id].createdAt + ttl])
  ELSE sess
Store_refresh(sess, id, t, ttl) ==
  IF id \in DOMAIN sess
  THEN MapSet(sess, id, [sess[id] EXCEPT !.expiresAt = t + ttl])
  ELSE sess

\* ------------------------------------------------ SessionManager.middleware
\* req.cookies?.sessionId of a request without the cookie (falsy)
NoCookie == 0
Cookies == Ids \cup {NoCookie}

\* no invocation in flight.  refreshedAt and before are history: the time of
\* the invocation's refresh and the expiresAt its first lookup found
MwIdle ==
  [pc |-> "idle", cookie |-> NoCookie, session |-> Undefined, next |-> 0,
   refreshedAt |-> 0, before |-> 0]

\* a request arrives: req.session is not assigned yet, next() not called
Middleware_enter(cookie) == [MwIdle EXCEPT !.pc = "lookup", !.cookie = cookie]

\* else branches: req.session = null; then next()
Middleware_noSession(m) ==
  [m EXCEPT !.session = NullRet, !.next = @ + 1, !.pc = "done"]

\* if (session) { req.session = session; ... the refresh follows
Middleware_found(m, r) == [m EXCEPT !.session = r, !.pc = "refresh"]

\* after await this.refreshSession(sessionId): the second lookup follows
Middleware_refreshed(m) == [m EXCEPT !.pc = "lookup2"]

\* req.session = await this.getSession(sessionId); then next()
Middleware_final_Stale(m, r) ==
  [m EXCEPT !.next = @ + 1, !.pc = "done"]
Middleware_final(m, r) ==
  [m EXCEPT !.session = r, !.next = @ + 1, !.pc = "done"]

\* catch (error) { console.error(...); req.session = null; } then next()
Middleware_catch_Unset(m) ==
  [m EXCEPT !.next = @ + 1, !.pc = "done"]
Middleware_catch(m) ==
  [m EXCEPT !.session = NullRet, !.next = @ + 1, !.pc = "done"]

\* ------------------------------------------------ InMemorySessionStore.update, by its await
\* update is async and awaits this.get(sessionId) before it merges and calls
\* this.sessions.set: the call is suspended between the two, holding the
\* session object that get returned.
UpdIdle == [pc |-> "idle", id |-> 0, data |-> EmptyMap, session |-> NullRet]

\* const session = await this.get(sessionId): suspended with the object, or
\* finished at once when get returned null
Update_awaitGet(id, data, r) ==
  IF r.kind = "session" THEN [pc |-> "set", id |-> id, data |-> data, session |-> r]
  ELSE UpdIdle

\* the object the suspended call holds: the one in the map while the id is
\* stored (the map holds the same object), else as it was when read
Update_held(sess, u) ==
  IF u.id \in DOMAIN sess THEN sess[u.id] ELSE u.session.session

\* session.data = { ...session.data, ...data }; this.sessions.set(sessionId, session)
Update_set(sess, u) ==
  MapSet(sess, u.id, [Update_held(sess, u) EXCEPT !.data = Spread(@, u.data)])

\* ------------------------------------------------ history
\* the operations of a SessionManager (middleware is the handler it returns)
ManagerOps ==
  <<"middleware", "createSession", "getSession", "updateSession",
    "deleteSession", "refreshSession">>

\* exercised after a call of op: ManagerOps[1..k] have been called, in order
ExercisedAfter(k, op) ==
  IF k < Len(ManagerOps) /\ ManagerOps[k + 1] = op THEN k + 1 ELSE k

\* ids that have been seen expired (stored with now > expiresAt) or deleted
DeadAfter(d, sess, t) == d \cup {i \in DOMAIN sess : t > sess[i].expiresAt}

\* ------------------------------------------------ Init

\* new InMemorySessionStore(), new SessionManager(store)
SessionInit ==
  /\ sessions = EmptyMap
  /\ issued = {}
  /\ mgrStorage = EmptyMap
  /\ dead = {}
  /\ sched = EmptyMap
  /\ mw = MwIdle
  /\ pending = UpdIdle
  /\ exercised = 0

\* new RateLimiter(rules)
RateLimiterInit ==
  /\ storage = EmptyMap

\* new BruteForceProtection(maxAttempts, lockoutDuration)
BruteForceInit ==
  /\ failedAttempts = EmptyMap
  /\ lastAttemptTime = EmptyMap
  /\ bfHist = [c \in Clients |-> [count |-> 0, lastAttemptAt |-> 0]]
  /\ afterReset = {}

\* ConfigManager.getInstance() under NODE_ENV = "test", as the tests run it
ConfigInit ==
  /\ config = defaultConfig
  /\ nodeEnv = "test"

\* new PasswordResetManager()
PasswordResetInit ==
  /\ tokens = EmptyMap
  /\ tokenLog = EmptyMap
  /\ consumed = {}

\* new TwoFactorAuthManager()
TwoFactorInit ==
  /\ secrets = EmptyMap
  /\ usedCodes = EmptyMap

AuthInit ==
  /\ passwordResetTTL = 1
  /\ PasswordResetInit
  /\ TwoFactorInit

ClockInit ==
  /\ now = 1
  /\ call = [op |-> "init"]
  /\ ret = VoidRet

\* the session store and its manager, under each configured sessionTTL
Init ==
  /\ ClockInit
  /\ ConfigInit
  /\ sessionTTL \in TTLs
  /\ SessionInit
  /\ rules = <<Rule(MaxWindow, MaxRequests)>>
  /\ RateLimiterInit
  /\ maxAttempts = MaxAttempts
  /\ lockoutDuration = MaxLockout
  /\ BruteForceInit
  /\ AuthInit

\* ------------------------------------------------ the clock
Tick ==
  /\ now < MaxTime
  /\ now' = now + 1
  /\ call' = [op |-> "tick"]
  /\ ret' = VoidRet
  /\ dead' = DeadAfter(dead, sessions, now + 1)
  /\ UNCHANGED <<sessionTTL, sessions, issued, sched, mgrStorage, exercised, mw, pending, rlVars, bfVars, cfgVars, authVars>>

\* ------------------------------------------------ store / manager calls
\* randomBytes(32).toString("hex"): an id no earlier call has produced.  Ids
\* are opaque, so the next unused one stands for any fresh value.
FreshIds_Repeat(used) == {i \in Ids : i = 1}
FreshIds(used) == {i \in Ids \ used : \A j \in Ids \ used : i <= j}

\* InMemorySessionStore.create called on the store the manager was given.
create(userId, data) ==
  \E id \in FreshIds(issued) :
    /\ sessions' = Store_create(sessions, id, userId, data, now, sessionTTL)
    /\ issued' = issued \cup {id}
    /\ call' = [op |-> "create", userId |-> userId, data |-> data]
    /\ ret' = SessionRet(sessions'[id])
    /\ dead' = DeadAfter(dead, sessions', now)
    /\ sched' = MapSet(sched, id, now)
    /\ UNCHANGED <<now, sessionTTL, mgrStorage, exercised, mw, pending, rlVars, bfVars, cfgVars, authVars>>

\* SessionManager.createSession: this.rateLimiter.tryAcquire is not a method
\* of RateLimiter, so the call throws a TypeError before the store is reached.
createSession(userId, data) ==
  /\ call' = [op |-> "createSession", userId |-> userId, data |-> data]
  /\ ret' = ErrorRet("TypeError: this.rateLimiter.tryAcquire is not a function")
  /\ dead' = DeadAfter(dead, sessions, now)
  /\ exercised' = ExercisedAfter(exercised, "createSession")
  /\ UNCHANGED <<now, sessionTTL, sessions, issued, sched, mgrStorage, mw, pending, rlVars, bfVars, cfgVars, authVars>>

getSession(id) ==
  LET g == Store_get(sessions, id, now) IN
    /\ sessions' = g.store
    /\ ret' = g.ret
    /\ call' = [op |-> "getSession", id |-> id,
                evicted |-> (DOMAIN g.store # DOMAIN sessions)]
    /\ dead' = DeadAfter(dead, sessions', now)
    /\ exercised' = ExercisedAfter(exercised, "getSession")
    /\ UNCHANGED <<now, sessionTTL, issued, sched, mgrStorage, mw, pending, rlVars, bfVars, cfgVars, authVars>>

updateSession(id, data) ==
  /\ sessions' = Store_update(sessions, id, data, now)
  /\ ret' = VoidRet
  /\ call' = [op |-> "updateSession", id |-> id, data |-> data]
  /\ dead' = DeadAfter(dead, sessions', now)
  /\ exercised' = ExercisedAfter(exercised, "updateSession")
  /\ UNCHANGED <<now, sessionTTL, issued, sched, mgrStorage, mw, pending, rlVars, bfVars, cfgVars, authVars>>

deleteSession(id) ==
  /\ sessions' = Store_delete(sessions, id)
  /\ ret' = VoidRet
  /\ call' = [op |-> "deleteSession", id |-> id, existed |-> id \in DOMAIN sessions]
  /\ dead' = DeadAfter(IF id \in DOMAIN sessions THEN dead \cup {id} ELSE dead, sessions', now)
  /\ sched' = MapDelete(sched, id)
  /\ exercised' = ExercisedAfter(exercised, "deleteSession")
  /\ UNCHANGED <<now, sessionTTL, issued, mgrStorage, mw, pending, rlVars, bfVars, cfgVars, authVars>>

refreshSession(id) ==
  /\ sessions' = Store_refresh(sessions, id, now, sessionTTL)
  /\ ret' = VoidRet
  /\ call' = [op |-> "refreshSession", id |-> id]
  /\ dead' = DeadAfter(dead, sessions', now)
  /\ sched' = IF id \in DOMAIN sched /\ now - sched[id] < sessionTTL
              THEN MapSet(sched, id, now)
              ELSE MapDelete(sched, id)
  /\ exercised' = ExercisedAfter(exercised, "refreshSession")
  /\ UNCHANGED <<now, sessionTTL, issued, mgrStorage, mw, pending, rlVars, bfVars, cfgVars, authVars>>

\* store.cleanup(), run by the manager's setInterval timer or called directly
cleanup ==
  /\ sessions' = Store_cleanup(sessions, now)
  /\ ret' = VoidRet
  /\ call' = [op |-> "cleanup",
              removed |-> DOMAIN sessions \ DOMAIN sessions']
  /\ dead' = DeadAfter(dead, sessions', now)
  /\ UNCHANGED <<now, sessionTTL, issued, sched, mgrStorage, exercised, mw, pending, rlVars, bfVars, cfgVars, authVars>>

Next ==
  \/ Tick
  \/ \E d \in DataInputs : create("u1", d)
  \/ \E u \in Users, d \in DataInputs : createSession(u, d)
  \/ \E i \in Ids : getSession(i)
  \/ \E i \in Ids, d \in PartialInputs : updateSession(i, d)
  \/ \E i \in Ids : deleteSession(i)
  \/ \E i \in Ids : refreshSession(i)
  \/ cleanup

Spec == Init /\ [][Next]_vars

\* ------------------------------------------------ middleware steps
\* The handler is async: the first lookup, the refresh and the second lookup
\* are three awaits, and other calls on the store can run between them.  The
\* store is the SessionStore the manager was given; threw = TRUE is a store
\* whose get or refresh rejects, which the in-memory store never does.

\* a request with cookie sessionId arrives; first await this.getSession
mw_lookup(cookie, threw) ==
  LET m == Middleware_enter(cookie)
      g == Store_get(sessions, cookie, now) IN
    /\ mw.pc \in {"idle", "done"}
    /\ (cookie = NoCookie => ~threw)
    /\ IF cookie = NoCookie
       THEN /\ mw' = Middleware_noSession(m)
            /\ sessions' = sessions
       ELSE IF threw
       THEN /\ mw' = Middleware_catch(m)
            /\ sessions' = sessions
       ELSE /\ sessions' = g.store
            /\ mw' = IF g.ret.kind = "session"
                     THEN [Middleware_found(m, g.ret)
                             EXCEPT !.before = g.ret.session.expiresAt]
                     ELSE Middleware_noSession(m)
    /\ call' = [op |-> "mw_lookup", id |-> cookie, threw |-> threw]
    /\ ret' = VoidRet
    /\ dead' = DeadAfter(dead, sessions', now)
    /\ exercised' = ExercisedAfter(exercised, "middleware")
    /\ UNCHANGED <<now, sessionTTL, issued, sched, mgrStorage, pending, rlVars, bfVars, cfgVars, authVars>>

\* await this.refreshSession(sessionId)
mw_refresh(threw) ==
  /\ mw.pc = "refresh"
  /\ IF threw
     THEN /\ mw' = Middleware_catch(mw)
          /\ sessions' = sessions
     ELSE /\ sessions' = Store_refresh(sessions, mw.cookie, now, sessionTTL)
          /\ mw' = [Middleware_refreshed(mw) EXCEPT !.refreshedAt = now]
  /\ call' = [op |-> "mw_refresh", id |-> mw.cookie, threw |-> threw]
  /\ ret' = VoidRet
  /\ dead' = DeadAfter(dead, sessions', now)
  /\ sched' = IF threw THEN sched
              ELSE IF mw.cookie \in DOMAIN sched /\ now - sched[mw.cookie] < sessionTTL
              THEN MapSet(sched, mw.cookie, now)
              ELSE MapDelete(sched, mw.cookie)
  /\ UNCHANGED <<now, sessionTTL, issued, mgrStorage, exercised, pending, rlVars, bfVars, cfgVars, authVars>>

\* req.session = await this.getSession(sessionId); next()
mw_lookup2(threw) ==
  LET g == Store_get(sessions, mw.cookie, now) IN
    /\ mw.pc = "lookup2"
    /\ IF threw
       THEN /\ mw' = Middleware_catch(mw)
            /\ sessions' = sessions
       ELSE /\ sessions' = g.store
            /\ mw' = Middleware_final(mw, g.ret)
    /\ call' = [op |-> "mw_lookup2", id |-> mw.cookie, threw |-> threw]
    /\ ret' = VoidRet
    /\ dead' = DeadAfter(dead, sessions', now)
    /\ UNCHANGED <<now, sessionTTL, issued, sched, mgrStorage, exercised, pending, rlVars, bfVars, cfgVars, authVars>>

\* ------------------------------------------------ update steps
\* updateSession(id, data) up to the await inside store.update
upd_get(id, data) ==
  LET g == Store_get(sessions, id, now) IN
    /\ pending.pc = "idle"
    /\ sessions' = g.store
    /\ pending' = Update_awaitGet(id, data, g.ret)
    /\ call' = [op |-> "upd_get", id |-> id, data |-> data]
    /\ ret' = VoidRet
    /\ dead' = DeadAfter(dead, sessions', now)
    /\ UNCHANGED <<now, sessionTTL, issued, sched, mgrStorage, exercised, mw, rlVars, bfVars, cfgVars, authVars>>

\* the rest of store.update, after the await
upd_set ==
  /\ pending.pc = "set"
  /\ sessions' = Update_set(sessions, pending)
  /\ pending' = UpdIdle
  /\ call' = [op |-> "upd_set", id |-> pending.id, data |-> pending.data]
  /\ ret' = VoidRet
  /\ dead' = DeadAfter(dead, sessions', now)
  /\ UNCHANGED <<now, sessionTTL, issued, sched, mgrStorage, exercised, mw, rlVars, bfVars, cfgVars, authVars>>

\* requests through the middleware and updateSession calls in flight
\* together, with sessions created, deleted and swept between their awaits.
\* (While an update is suspended on an id the refresh of that id is left
\* out: Update_held keeps the object as the lookup found it.)
NextRace ==
  \/ Tick
  \/ \E d \in DataInputs : Cardinality(issued) < MaxMwIds /\ create("u1", d)
  \/ \E c \in Cookies : mw_lookup(c, FALSE)
  \/ (pending.pc = "idle" \/ pending.id # mw.cookie) /\ mw_refresh(FALSE)
  \/ mw_lookup2(FALSE)
  \/ \E i \in Ids, d \in PartialInputs : upd_get(i, d)
  \/ upd_set
  \/ \E i \in Ids : deleteSession(i)
  \/ cleanup

SpecRace == Init /\ [][NextRace]_vars

\* requests through the middleware, with sessions created, deleted and swept
\* while an invocation is in flight
NextMW ==
  \/ Tick
  \/ \E d \in DataInputs : Cardinality(issued) < MaxMwIds /\ create("u1", d)
  \/ \E c \in Cookies, t \in BOOLEAN : mw_lookup(c, t)
  \/ \E t \in BOOLEAN : mw_refresh(t)
  \/ \E t \in BOOLEAN : mw_lookup2(t)
  \/ \E i \in Ids : deleteSession(i)
  \/ cleanup

SpecMW == Init /\ [][NextMW]_vars

\* sessions whose data hold objects, updated with partial data
NextData ==
  \/ Tick
  \/ \E d \in ObjectInputs : Cardinality(issued) < MaxMwIds /\ create("u1", d)
  \/ \E i \in Ids, d \in MergeInputs : updateSession(i, d)
  \/ \E i \in Ids : getSession(i)

SpecData == Init /\ [][NextData]_vars

\* ------------------------------------------------ configuration calls
updateConfig(newConfig) ==
  LET r == ConfigManager_updateConfig(getConfig(config, sessionTTL), newConfig, nodeEnv) IN
    /\ sessionTTL' = r.config.sessionTTL
    /\ config' = [k \in DOMAIN r.config \ {"sessionTTL"} |-> r.config[k]]
    /\ ret' = IF r.error = "" THEN VoidRet
              ELSE ErrorRet("Configuration update failed: " \o r.error)
    /\ call' = [op |-> "updateConfig", newConfig |-> newConfig]
    /\ UNCHANGED <<now, sessions, issued, mgrStorage, dead, sched, mw, pending, exercised,
                   nodeEnv, rlVars, bfVars, authVars>>

\* the configuration alone, in a test and in a production environment
InitConfig ==
  /\ ClockInit
  /\ config = defaultConfig
  /\ nodeEnv \in {"test", "production"}
  /\ sessionTTL \in TTLs
  /\ SessionInit
  /\ rules = <<Rule(MaxWindow, MaxRequests)>>
  /\ RateLimiterInit
  /\ maxAttempts = MaxAttempts
  /\ lockoutDuration = MaxLockout
  /\ BruteForceInit
  /\ AuthInit

NextConfig ==
  \E u \in ConfigUpdates : updateConfig(u)

SpecConfig == InitConfig /\ [][NextConfig]_vars

\* the store under a sessionTTL that updateConfig changes between calls
NextTTL ==
  \/ Tick
  \/ \E u \in TTLUpdates : updateConfig(u)
  \/ \E d \in DataInputs : create("u1", d)
  \/ \E i \in Ids, d \in PartialInputs : updateSession(i, d)
  \/ \E i \in Ids : refreshSession(i)
  \/ cleanup

SpecTTL == Init /\ [][NextTTL]_vars

\* sessions created one after another while earlier ones are deleted or
\* expire and are swept
NextIds ==
  \/ Tick
  \/ \E d \in DataInputs : create("u1", d)
  \/ \E i \in Ids : deleteSession(i)
  \/ \E i \in Ids : getSession(i)
  \/ cleanup

SpecIds == Init /\ [][NextIds]_vars

\* every operation of the store that reads or writes a stored record
NextFrame ==
  \/ Tick
  \/ \E d \in ObjectInputs : Cardinality(issued) < MaxMwIds /\ create("u1", d)
  \/ \E i \in Ids : getSession(i)
  \/ \E i \in Ids, d \in OverwriteInputs : updateSession(i, d)
  \/ \E i \in Ids : deleteSession(i)
  \/ \E i \in Ids : refreshSession(i)
  \/ cleanup

SpecFrame == Init /\ [][NextFrame]_vars

\* every operation of one manager, and the cleanup task its constructor
\* scheduled with setInterval: the interval's handle is not kept and no
\* operation clears it, so the task can run in every state
NextTM ==
  \/ Tick
  \/ \E d \in DataInputs : Cardinality(issued) < MaxMwIds /\ create("u1", d)
  \/ \E d \in DataInputs : createSession("u1", d)
  \/ \E i \in Ids : getSession(i)
  \/ \E i \in Ids, d \in PartialInputs : updateSession(i, d)
  \/ \E i \in Ids : deleteSession(i)
  \/ \E i \in Ids : refreshSession(i)
  \/ \E c \in Cookies : mw_lookup(c, FALSE)
  \/ mw_refresh(FALSE)
  \/ mw_lookup2(FALSE)
  \/ cleanup

SpecTM == Init /\ [][NextTM]_vars

\* the store under a manager whose cleanup timer keeps firing while time
\* advances; no session is read: sessions are created and refreshed only
NextLive ==
  \/ Tick
  \/ \E d \in DataInputs : create("u1", d)
  \/ \E i \in Ids : refreshSession(i)
  \/ cleanup

\* setInterval(() => this.store.cleanup(), 300000) fires again and again,
\* and the clock advances
SpecLive == Init /\ [][NextLive]_vars /\ WF_vars(Tick) /\ WF_vars(cleanup)

\* ------------------------------------------------ RateLimiter calls
rl_isAllowed(clientId) ==
  LET r == RateLimiter_isAllowed(storage, rules, clientId, now) IN
    /\ \A k \in DOMAIN storage : k[1] = clientId => storage[k].count < MaxCount
    /\ storage' = r.storage
    /\ ret' = BoolRet(r.allowed)
    /\ call' = [op |-> "isAllowed", id |-> clientId]
    /\ UNCHANGED <<now, rules, sessVars, bfVars, cfgVars, authVars>>

rl_middleware(req) ==
  LET clientId == getClientIdentifier(req)
      r == RateLimiter_middleware(storage, rules, req, now) IN
    /\ \A k \in DOMAIN storage : k[1] = clientId => storage[k].count < MaxCount
    /\ storage' = r.storage
    /\ ret' = r.ret
    /\ call' = [op |-> "rl_middleware", id |-> clientId, req |-> req]
    /\ UNCHANGED <<now, rules, sessVars, bfVars, cfgVars, authVars>>

rl_reset(clientId) ==
  /\ storage' = RateLimiter_reset(storage, rules, clientId)
  /\ ret' = VoidRet
  /\ call' = [op |-> "reset", id |-> clientId]
  /\ UNCHANGED <<now, rules, sessVars, bfVars, cfgVars, authVars>>

\* a RateLimiter under each rule list
InitRL ==
  /\ ClockInit
  /\ ConfigInit
  /\ sessionTTL = 1
  /\ SessionInit
  /\ rules \in RuleLists
  /\ RateLimiterInit
  /\ maxAttempts = MaxAttempts
  /\ lockoutDuration = MaxLockout
  /\ BruteForceInit
  /\ AuthInit

NextRL ==
  \/ Tick
  \/ \E c \in Clients : rl_isAllowed(c)
  \/ \E r \in Requests : getClientIdentifier(r) \in Clients /\ rl_middleware(r)
  \/ \E c \in Clients : rl_reset(c)

SpecRL == InitRL /\ [][NextRL]_vars

\* ------------------------------------------------ BruteForceProtection calls
\* history of the failures of one identifier, as the data model describes it:
\* a purge empties the record of an identifier that is locked and whose last
\* failure is more than lockoutDuration ago
HistPurged(h, t, maxA, lockout) ==
  [c \in DOMAIN h |->
     IF h[c].count >= maxA /\ t - h[c].lastAttemptAt > lockout
     THEN [count |-> 0, lastAttemptAt |-> 0]
     ELSE h[c]]

bf_recordFailedAttempt(identifier) ==
  LET r == BruteForce_recordFailedAttempt(failedAttempts, lastAttemptTime, identifier, now) IN
    /\ Attempts(failedAttempts, identifier) < MaxCount
    /\ failedAttempts' = r.failedAttempts
    /\ lastAttemptTime' = r.lastAttemptTime
    /\ ret' = VoidRet
    /\ call' = [op |-> "recordFailedAttempt", id |-> identifier,
                last |-> IF identifier \in DOMAIN lastAttemptTime
                         THEN lastAttemptTime[identifier] ELSE 0]
    /\ bfHist' = [bfHist EXCEPT ![identifier] =
                    [count |-> @.count + 1, lastAttemptAt |-> now]]
    /\ afterReset' = afterReset \ {identifier}
    /\ UNCHANGED <<now, maxAttempts, lockoutDuration, sessVars, rlVars, cfgVars, authVars>>

bf_resetAttempts(identifier) ==
  LET r == BruteForce_resetAttempts(failedAttempts, lastAttemptTime, identifier) IN
    /\ failedAttempts' = r.failedAttempts
    /\ lastAttemptTime' = r.lastAttemptTime
    /\ ret' = VoidRet
    /\ call' = [op |-> "resetAttempts", id |-> identifier]
    /\ bfHist' = [bfHist EXCEPT ![identifier] = [count |-> 0, lastAttemptAt |-> 0]]
    /\ afterReset' = afterReset \cup {identifier}
    /\ UNCHANGED <<now, maxAttempts, lockoutDuration, sessVars, rlVars, cfgVars, authVars>>

bf_isAllowed(identifier) ==
  LET r == BruteForce_isAllowed(failedAttempts, lastAttemptTime, identifier, now,
                                maxAttempts, lockoutDuration) IN
    /\ failedAttempts' = r.failedAttempts
    /\ lastAttemptTime' = r.lastAttemptTime
    /\ ret' = BoolRet(r.allowed)
    /\ call' = [op |-> "bfIsAllowed", id |-> identifier,
                purged |-> DOMAIN failedAttempts \ DOMAIN r.failedAttempts]
    /\ bfHist' = HistPurged(bfHist, now, maxAttempts, lockoutDuration)
    /\ UNCHANGED <<now, maxAttempts, lockoutDuration, afterReset, sessVars, rlVars, cfgVars, authVars>>

bf_middleware(req) ==
  LET identifier == getClientIdentifier(req)
      r == BruteForce_middleware(failedAttempts, lastAttemptTime, req, now,
                                 maxAttempts, lockoutDuration) IN
    /\ failedAttempts' = r.failedAttempts
    /\ lastAttemptTime' = r.lastAttemptTime
    /\ ret' = r.ret
    /\ call' = [op |-> "bf_middleware", id |-> identifier, req |-> req]
    /\ bfHist' = HistPurged(bfHist, now, maxAttempts, lockoutDuration)
    /\ UNCHANGED <<now, maxAttempts, lockoutDuration, afterReset, sessVars, rlVars, cfgVars, authVars>>

\* a BruteForceProtection under each (maxAttempts, lockoutDuration)
InitBF ==
  /\ ClockInit
  /\ ConfigInit
  /\ sessionTTL = 1
  /\ SessionInit
  /\ rules = <<Rule(MaxWindow, MaxRequests)>>
  /\ RateLimiterInit
  /\ maxAttempts \in 1..MaxAttempts
  /\ lockoutDuration \in 1..MaxLockout
  /\ BruteForceInit
  /\ AuthInit

NextBF ==
  \/ Tick
  \/ \E c \in Clients : bf_recordFailedAttempt(c)
  \/ \E c \in Clients : bf_resetAttempts(c)
  \/ \E c \in Clients : bf_isAllowed(c)
  \/ \E r \in Requests : bf_middleware(r)

SpecBF == InitBF /\ [][NextBF]_vars

\* ------------------------------------------------ PasswordResetManager calls
\* randomBytes(32).toString("hex"): a token no earlier call has produced
generateResetToken(userId) ==
  \E token \in ResetTokens \ DOMAIN tokenLog :
    /\ tokens' = PasswordReset_generateResetToken(tokens, token, userId, now,
                                                   passwordResetTTL)
    /\ tokenLog' = MapSet(tokenLog, token, [userId |-> userId, generatedAt |-> now])
    /\ ret' = StringRet(token)
    /\ call' = [op |-> "generateResetToken", userId |-> userId]
    /\ UNCHANGED <<now, passwordResetTTL, consumed, tfVars, sessVars, rlVars, bfVars,
                   cfgVars>>

verifyResetToken(token) ==
  /\ ret' = PasswordReset_verifyResetToken(tokens, token, now)
  /\ call' = [op |-> "verifyResetToken", token |-> token]
  /\ UNCHANGED <<now, authVars, sessVars, rlVars, bfVars, cfgVars>>

resetPassword(token, newPassword) ==
  LET r == PasswordReset_resetPassword(tokens, token, newPassword, now,
                                       config.passwordPolicy) IN
    /\ tokens' = r.tokens
    /\ consumed' = consumed \cup (DOMAIN tokens \ DOMAIN r.tokens)
    /\ ret' = r.ret
    /\ call' = [op |-> "resetPassword", token |-> token, newPassword |-> newPassword]
    /\ UNCHANGED <<now, passwordResetTTL, tokenLog, tfVars, sessVars, rlVars, bfVars,
                   cfgVars>>

cleanupExpiredTokens ==
  /\ tokens' = PasswordReset_cleanupExpiredTokens(tokens, now)
  /\ ret' = VoidRet
  /\ call' = [op |-> "cleanupExpiredTokens"]
  /\ UNCHANGED <<now, passwordResetTTL, tokenLog, consumed, tfVars, sessVars, rlVars,
                 bfVars, cfgVars>>

\* a PasswordResetManager under each configured passwordResetTTL
InitReset ==
  /\ ClockInit
  /\ ConfigInit
  /\ sessionTTL = 1
  /\ SessionInit
  /\ rules = <<Rule(MaxWindow, MaxRequests)>>
  /\ RateLimiterInit
  /\ maxAttempts = MaxAttempts
  /\ lockoutDuration = MaxLockout
  /\ BruteForceInit
  /\ passwordResetTTL \in ResetTTLs
  /\ PasswordResetInit
  /\ TwoFactorInit

NextReset ==
  \/ Tick
  \/ \E u \in ResetUsers : generateResetToken(u)
  \/ \E k \in ResetTokens : verifyResetToken(k)
  \/ \E k \in ResetTokens, p \in Passwords : resetPassword(k, p)
  \/ cleanupExpiredTokens

SpecReset == InitReset /\ [][NextReset]_vars

\* ------------------------------------------------ TwoFactorAuthManager calls
generateSecret(userId) ==
  \E secret \in SecretValues, backupCodes \in BackupCodeLists :
    /\ secrets' = TwoFactor_generateSecret(secrets, userId, secret, backupCodes)
    /\ usedCodes' = MapSet(usedCodes, userId, {})
    /\ ret' = [kind |-> "secret", value |-> secrets'[userId]]
    /\ call' = [op |-> "generateSecret", userId |-> userId]
    /\ UNCHANGED <<now, prVars, sessVars, rlVars, bfVars, cfgVars>>

useBackupCode(userId, code) ==
  \E r \in {TwoFactor_useBackupCode(secrets, userId, code)} :
    /\ secrets' = r.secrets
    /\ usedCodes' = IF r.ret THEN [usedCodes EXCEPT ![userId] = @ \cup {code}]
                    ELSE usedCodes
    /\ ret' = BoolRet(r.ret)
    /\ call' = [op |-> "useBackupCode", userId |-> userId, code |-> code]
    /\ UNCHANGED <<now, prVars, sessVars, rlVars, bfVars, cfgVars>>

NextTwoFactor ==
  \/ \E u \in Users : generateSecret(u)
  \/ \E u \in Users, c \in CodeValues : useBackupCode(u, c)

\* a TwoFactorAuthManager after construction
InitTwoFactor ==
  /\ ClockInit
  /\ ConfigInit
  /\ sessionTTL = 1
  /\ SessionInit
  /\ rules = <<Rule(MaxWindow, MaxRequests)>>
  /\ RateLimiterInit
  /\ maxAttempts = MaxAttempts
  /\ lockoutDuration = MaxLockout
  /\ BruteForceInit
  /\ AuthInit

SpecTwoFactor == InitTwoFactor /\ [][NextTwoFactor]_vars

\* ------------------------------------------------ AuthHelpers calls
authenticate(req, found) ==
  \E r \in {AuthHelpers_authenticate(storage, rules, failedAttempts, lastAttemptTime,
                                     req, found, now)} :
  LET clientId == getClientIdentifier(req)
      recorded == "recordFailedAttempt" \in {r.trace[i] : i \in 1..Len(r.trace)}
      reset == "resetAttempts" \in {r.trace[i] : i \in 1..Len(r.trace)}
  IN
    /\ \A k \in DOMAIN storage : k[1] = clientId => storage[k].count < MaxCount
    /\ Attempts(failedAttempts, clientId) < MaxCount
    /\ storage' = r.storage
    /\ failedAttempts' = r.failedAttempts
    /\ lastAttemptTime' = r.lastAttemptTime
    /\ ret' = r.ret
    /\ call' = [op |-> "authenticate", id |-> clientId, req |-> req, found |-> found,
                trace |-> r.trace,
                locked |-> ~BruteForce_isAllowed(failedAttempts, lastAttemptTime, clientId,
                                                 now, maxAttempts, lockoutDuration).allowed]
    /\ bfHist' = IF recorded
                 THEN [bfHist EXCEPT ![clientId] =
                         [count |-> @.count + 1, lastAttemptAt |-> now]]
                 ELSE IF reset
                 THEN [bfHist EXCEPT ![clientId] = [count |-> 0, lastAttemptAt |-> 0]]
                 ELSE bfHist
    /\ afterReset' = IF recorded THEN afterReset \ {clientId}
                     ELSE IF reset THEN afterReset \cup {clientId}
                     ELSE afterReset
    /\ UNCHANGED <<now, rules, maxAttempts, lockoutDuration, sessVars, cfgVars, authVars>>

\* globalRateLimiter and globalBruteForceProtection after construction
InitAuth ==
  /\ ClockInit
  /\ ConfigInit
  /\ sessionTTL = 1
  /\ SessionInit
  /\ rules = <<Rule(MaxWindow, MaxRequests)>>
  /\ RateLimiterInit
  /\ maxAttempts = MaxAttempts
  /\ lockoutDuration = MaxLockout
  /\ BruteForceInit
  /\ AuthInit

NextAuth ==
  \/ Tick
  \/ \E r \in AuthRequests, f \in FindUserOutcomes :
       \* findUser is not called for a body without username or password,
       \* and the second client's user is unknown
       /\ (r.body.username = "" \/ r.body.password = "" \/ r.ip = "") => f = "null"
       /\ authenticate(r, f)

SpecAuth == InitAuth /\ [][NextAuth]_vars

\* ================================================ claims: sessions

\* C1: getSession(id) returns the stored record exactly when one is stored
\* under id with expiresAt >= now (now = expiresAt included) and then leaves
\* the table alone; a stored record with expiresAt < now is removed and the
\* call returns absent; an unknown id returns absent.  No call returns a
\* record with expiresAt < now.
C1_Get ==
  [][ /\ \A i \in Ids : (call'.op = "getSession" /\ call'.id = i) =>
           /\ (i \in DOMAIN sessions /\ sessions[i].expiresAt >= now) =>
                (ret' = SessionRet(sessions[i]) /\ sessions' = sessions)
           /\ (i \in DOMAIN sessions /\ sessions[i].expiresAt < now) =>
                /\ ret' = NullRet
                /\ DOMAIN sessions' = DOMAIN sessions \ {i}
                /\ \A j \in DOMAIN sessions' : sessions'[j] = sessions[j]
           /\ (i \notin DOMAIN sessions) => (ret' = NullRet /\ sessions' = sessions)
      /\ (ret'.kind = "session") => (ret'.session.expiresAt >= now')
    ]_vars

\* a read exactly at expiresAt that returned the record
C1_Witness ==
  /\ call.op = "getSession"
  /\ ret.kind = "session"
  /\ ret.session.expiresAt = now

\* C2: once now > expiresAt has held for a stored session, or once it was
\* deleted, every later getSession(id) returns absent.
C2_NoResurrection ==
  (call.op = "getSession" /\ call.id \in dead) => ret = NullRet

\* a session on its refresh schedule, read within sessionTTL of its last
\* refresh (or of its creation), is returned
C3_KeptAlive ==
  (call.op = "getSession" /\ call.id \in DOMAIN sched
     /\ now - sched[call.id] <= sessionTTL)
  => (ret.kind = "session" /\ ret.session.id = call.id)

\* C3: refreshSession(id) sets expiresAt of a stored session to now +
\* sessionTTL and changes nothing else, and nothing at all when id is not
\* stored; a session whose refreshes have each come less than sessionTTL
\* after the previous one (or after creation), and that was never deleted,
\* is returned by every getSession made within sessionTTL of the last one.
C3_Refresh ==
  [][ /\ \A i \in Ids : (call'.op = "refreshSession" /\ call'.id = i) =>
           IF i \in DOMAIN sessions
           THEN sessions' = [sessions EXCEPT ![i].expiresAt = now + sessionTTL]
           ELSE sessions' = sessions
      /\ C3_KeptAlive'
    ]_vars

\* a session read after createdAt + sessionTTL, alive through its refreshes
C3_Witness ==
  /\ call.op = "getSession"
  /\ call.id \in DOMAIN sched
  /\ ret.kind = "session"
  /\ now > ret.session.createdAt + sessionTTL

\* C4: cleanup() keeps all and only the records with expiresAt >= now, each
\* unchanged.
C4_Cleanup ==
  [][ (call'.op = "cleanup") =>
        /\ DOMAIN sessions' = {i \in DOMAIN sessions : sessions[i].expiresAt >= now}
        /\ \A i \in DOMAIN sessions' : sessions'[i] = sessions[i]
    ]_vars

\* a sweep that removed a record and kept one that expires at this instant
C4_Witness ==
  /\ call.op = "cleanup"
  /\ call.removed # {}
  /\ \E i \in DOMAIN sessions : sessions[i].expiresAt = now

\* what the manager's limiter answers for userId at this instant
LimiterAllows(userId) ==
  RateLimiter_isAllowed(mgrStorage, MgrRules, userId, now).allowed

\* C5: createSession(userId, data) fails exactly when the manager's limiter
\* denies userId, and then stores nothing; otherwise it returns a newly
\* stored session carrying userId and data.
C5_CreateSession ==
  (call.op = "createSession") =>
     /\ (ret.kind = "error") <=> ~LimiterAllows(call.userId)
     /\ LimiterAllows(call.userId) =>
          /\ ret.kind = "session"
          /\ ret.session.userId = call.userId
          /\ ret.session.data = call.data
          /\ ret.session.id \in DOMAIN sessions

\* the creations the manager's limiter has counted for userId
CreationsCounted(userId) ==
  LET key == Key(userId, MgrRules[1])
  IN IF key \in DOMAIN mgrStorage THEN mgrStorage[key].count ELSE 0

\* C6: inside one window the first maxRequests createSession calls of a
\* userId succeed and the later ones throw, whatever other userIds do.
C6_CreationThrottle ==
  (call.op = "createSession") =>
     /\ (CreationsCounted(call.userId) <= MgrRules[1].maxRequests) => ret.kind = "session"
     /\ (CreationsCounted(call.userId) > MgrRules[1].maxRequests) => ret.kind = "error"

\* C12: session middleware, request carrying the id of a stored, non-expired
\* session: the first lookup attaches the record and goes on to the refresh,
\* the refresh sets expiresAt to (refresh time) + sessionTTL, and the second
\* lookup attaches the post-refresh record: its id is the cookie's id, its
\* expiresAt is (refresh time) + sessionTTL, not less than the expiresAt found
\* before the request; next() is then called.
C12_PostRefresh ==
  [][(call'.op \in {"mw_lookup", "mw_refresh", "mw_lookup2"} /\ ~call'.threw
        /\ call'.id \in DOMAIN sessions) =>
      LET id == call'.id IN
        /\ (call'.op = "mw_lookup" /\ sessions[id].expiresAt >= now) =>
              /\ mw'.pc = "refresh"
              /\ mw'.session = SessionRet(sessions[id])
              /\ mw'.next = 0
        /\ call'.op = "mw_refresh" =>
              /\ mw'.pc = "lookup2"
              /\ sessions'[id].expiresAt = now + sessionTTL
        /\ (call'.op = "mw_lookup2" /\ sessions[id].expiresAt >= now) =>
              /\ mw'.pc = "done"
              /\ mw'.session = SessionRet(sessions'[id])
              /\ mw'.session.session.id = mw.cookie
              /\ mw'.session.session.expiresAt = mw.refreshedAt + sessionTTL
              /\ mw'.session.session.expiresAt >= mw.before
              /\ mw'.next = 1]_vars

\* a request that completed with the refreshed record attached, the refresh
\* having moved expiresAt forward
C12_Witness ==
  /\ call.op = "mw_lookup2"
  /\ mw.pc = "done"
  /\ mw.session.kind = "session"
  /\ mw.session.session.expiresAt = mw.refreshedAt + sessionTTL
  /\ mw.session.session.expiresAt > mw.before
  /\ mw.next = 1

MwOps == {"mw_lookup", "mw_refresh", "mw_lookup2"}

\* C13: session middleware always completes the request: with no sessionId
\* cookie, an unknown id, an expired id, or a store whose get or refresh
\* throws, req.session is set to null (not left undefined), no error leaves
\* the middleware, and next() is called exactly once per request.
C13_AlwaysCompletes ==
  [][/\ call'.op \in MwOps =>
          /\ ret'.kind # "error"
          /\ mw'.next <= 1
          /\ (mw'.pc = "done") = (mw'.next = 1)
          /\ mw'.pc = "done" => mw'.session # Undefined
          /\ LET id == call'.id
                 noSession == \/ id = NoCookie
                              \/ id \notin DOMAIN sessions
                              \/ sessions[id].expiresAt < now
             IN (call'.threw \/ (call'.op # "mw_refresh" /\ noSession)) =>
                  /\ mw'.pc = "done"
                  /\ mw'.session = NullRet
                  /\ mw'.next = 1
     /\ call'.op \notin MwOps => mw' = mw]_vars

\* a request whose refresh threw after the session had been attached: it
\* completed with req.session = null and one call of next()
C13_Witness ==
  /\ call.op = "mw_refresh"
  /\ call.threw
  /\ mw.pc = "done"
  /\ mw.session = NullRet
  /\ mw.next = 1

\* C14: the periodic store.cleanup() task a SessionManager schedules at
\* construction can be cancelled at teardown: some manager operation is such
\* that no cleanup run occurs after it.  Hence no cleanup run occurs once
\* every operation of the manager has been called.
C14_TimerCancellable ==
  [][call'.op = "cleanup" => exercised < Len(ManagerOps)]_vars

\* C15: deleteSession(id) is idempotent and never fails: it raises no error,
\* afterwards getSession(id) returns absent, on an absent id (a second call
\* included) the store is unchanged, and the sessions under other ids are
\* untouched.
C15_DeleteIdempotent ==
  [][(call'.op = "deleteSession") =>
      LET id == call'.id IN
        /\ ret'.kind # "error"
        /\ Store_get(sessions', id, now).ret = NullRet
        /\ id \notin DOMAIN sessions => sessions' = sessions
        /\ DOMAIN sessions' = DOMAIN sessions \ {id}
        /\ \A j \in DOMAIN sessions \ {id} : sessions'[j] = sessions[j]]_vars

\* a deleteSession on an id that had been issued and was no longer stored,
\* with another session in the store
C15_Witness ==
  /\ call.op = "deleteSession"
  /\ ~call.existed
  /\ call.id \in issued
  /\ call.id \in dead
  /\ DOMAIN sessions # {}

\* C16: updateSession(id, partialData) on a present, non-expired session
\* replaces data with the shallow merge: every key of partialData maps to its
\* new value, every other key of the old data keeps its value, and nothing
\* else of the store changes; on an absent or expired id no session's data
\* changes; no error is raised.
C16_ShallowMerge ==
  [][(call'.op = "updateSession") =>
      LET id == call'.id
          partialData == call'.data
      IN /\ ret'.kind # "error"
         /\ IF id \in DOMAIN sessions /\ sessions[id].expiresAt >= now
            THEN LET old == sessions[id].data
                     new == sessions'[id].data
                 IN /\ DOMAIN sessions' = DOMAIN sessions
                    /\ DOMAIN new = DOMAIN old \cup DOMAIN partialData
                    /\ \A k \in DOMAIN partialData : new[k] = partialData[k]
                    /\ \A k \in DOMAIN old \ DOMAIN partialData : new[k] = old[k]
                    /\ sessions'[id] = [sessions[id] EXCEPT !.data = new]
                    /\ \A j \in DOMAIN sessions \ {id} : sessions'[j] = sessions[j]
            ELSE /\ DOMAIN sessions' \subseteq DOMAIN sessions
                 /\ \A j \in DOMAIN sessions' : sessions'[j] = sessions[j]]_vars

\* an update that overwrote the object under one key with a smaller object
\* and left the other key as it was
C16_Witness ==
  /\ call.op = "updateSession"
  /\ call.id \in DOMAIN sessions
  /\ DOMAIN call.data = {"a"}
  /\ sessions[call.id].data["a"] = [x |-> 2]
  /\ sessions[call.id].data["b"] = [x |-> 1, y |-> 1]

C22_ExpiresAfterCreated ==
  \A i \in DOMAIN sessions : sessions[i].expiresAt > sessions[i].createdAt

C34_EventuallyRemoved ==
  \A i \in Ids : \A e \in 1..(MaxTime - 1) :
    (i \in DOMAIN sessions /\ sessions[i].expiresAt = e)
      ~> (i \notin DOMAIN sessions \/ sessions[i].expiresAt # e)

\* a sweep of the timer that removed an expired session nobody had read
C34_Witness ==
  /\ call.op = "cleanup"
  /\ call.removed # {}
  /\ \A i \in call.removed : i \in issued /\ i \notin DOMAIN sessions

\* the time-to-live the store applied when it last created or refreshed
\* session j (for the sessions whose last create or refresh time is on record)
AppliedTTL(j) == sessions[j].expiresAt - sched[j]

\* C35: the sessionTTL a store applies in create and refresh is the value
\* configured when it was constructed, whatever updateConfig({sessionTTL})
\* calls came afterwards: all sessions of the one store, whenever they were
\* created or refreshed, got the same time-to-live.
C35_ConfigReadAtConstruction ==
  \A j, k \in DOMAIN sched \cap DOMAIN sessions : AppliedTTL(j) = AppliedTTL(k)

\* C40: only create adds an id to the session table, so a logout cannot be
\* undone by a concurrent request.  On every step of every interleaving of
\* middleware invocations, updateSession calls, deleteSession and cleanup:
\* an id enters the table only by create; an id that was issued and is no
\* longer stored stays out of the table; and a middleware invocation whose
\* final lookup comes after the removal of its session id attaches the
\* no-session marker, calls next, and leaves the id absent.
C40_LogoutNotUndone ==
  [][/\ (DOMAIN sessions' \ DOMAIN sessions # {}) => call'.op = "create"
     /\ \A s \in issued : s \notin DOMAIN sessions => s \notin DOMAIN sessions'
     /\ (call'.op \in {"mw_lookup", "mw_lookup2"} /\ call'.id \in issued
           /\ call'.id \notin DOMAIN sessions) =>
          /\ mw'.pc = "done"
          /\ mw'.session = NullRet
          /\ mw'.next = 1
          /\ call'.id \notin DOMAIN sessions']_vars

\* ================================================ claims: rate limiter

\* C7: with a single rule {windowMs, maxRequests >= 1}, a call that finds no
\* record of the client, or finds one with now > resetTime, returns true and
\* leaves count 1 and resetTime = now + windowMs; a call inside the window
\* adds one to the count, keeps resetTime, and returns true exactly while
\* the count is at most maxRequests.
C7_SingleRule ==
  [][ \A c \in Clients : (call'.op = "isAllowed" /\ call'.id = c /\ Len(rules) = 1) =>
        LET key == <<c, rules[1].windowMs>> IN
          IF key \notin DOMAIN storage \/ now > storage[key].resetTime
          THEN /\ ret' = BoolRet(TRUE)
               /\ key \in DOMAIN storage'
               /\ storage'[key] = [count |-> 1, resetTime |-> now + rules[1].windowMs]
          ELSE /\ key \in DOMAIN storage'
               /\ storage'[key] = [count |-> storage[key].count + 1,
                                   resetTime |-> storage[key].resetTime]
               /\ ret' = BoolRet(storage[key].count + 1 <= rules[1].maxRequests)
    ]_vars

\* a denied call inside a window, and a client whose window has rolled over
C7_Witness ==
  /\ Len(rules) = 1
  /\ call.op = "isAllowed"
  /\ ret = BoolRet(FALSE)
  /\ \E k \in DOMAIN storage :
       /\ k[1] = call.id
       /\ storage[k].count = rules[1].maxRequests + 1
  /\ \E k \in DOMAIN storage :
       /\ k[1] # call.id
       /\ storage[k].count = 1
       /\ storage[k].resetTime = now + rules[1].windowMs
       /\ now > 1 + rules[1].windowMs

\* rule i is the only rule of the list with its windowMs
OwnKey(i) == \A j \in 1..Len(rules) : rules[j].windowMs = rules[i].windowMs => j = i

C17_RateLimitMiddleware ==
  [][(call'.op = "rl_middleware") =>
      LET r == RateLimiter_isAllowed(storage, rules, getClientIdentifier(call'.req), now)
      IN /\ call'.id = getClientIdentifier(call'.req)
         /\ (ret'.next = 1) = r.allowed
         /\ r.allowed => ret'.status = 0
         /\ ~r.allowed => (ret'.next = 0 /\ ret'.status = 429)
         /\ storage' = r.storage
         /\ rules' = rules]_vars

\* a request identified by its remoteAddress that was denied with 429
C17_Witness ==
  /\ call.op = "rl_middleware"
  /\ call.req.ip = ""
  /\ ret.next = 0
  /\ ret.status = 429

\* C19: the body of a denial response is the message the tests assert: a
\* rate-limited request gets { error: "Too many requests, please try again
\* later." } with status 429, and a locked-out request gets { error: "Account
\* temporarily locked due to too many failed attempts. Please try again
\* later." } with status 403.
C19_DenialBodies ==
  /\ (call.op = "rl_middleware" /\ ret.next = 0) =>
        /\ ret.status = 429
        /\ ret.error = "Too many requests, please try again later."
  /\ (call.op = "bf_middleware" /\ ret.next = 0) =>
        /\ ret.status = 403
        /\ ret.error = "Account temporarily locked due to too many failed attempts. Please try again later."

\* C20: RateLimiter.reset(clientId) removes the counters of every configured
\* rule for that client and nothing else: afterwards the client's next
\* isAllowed call, whenever it comes, returns true (every maxRequests >= 1)
\* with all its counts at 1, and the counters of every other client are
\* unchanged.
C20_ResetFrame ==
  [][(call'.op = "reset") =>
      LET c == call'.id IN
        /\ \A k \in DOMAIN storage' : k[1] # c
        /\ \A k \in DOMAIN storage : k[1] # c =>
              (k \in DOMAIN storage' /\ storage'[k] = storage[k])
        /\ DOMAIN storage' \subseteq DOMAIN storage
        /\ \A t \in now..MaxTime :
              LET r == RateLimiter_isAllowed(storage', rules, c, t) IN
                /\ r.allowed
                /\ \A i \in 1..Len(rules) :
                      r.storage[Key(c, rules[i])].count = 1]_vars

\* the record the limiter holds for a client under a rule, after the
\* expired records have been dropped: count 0 if there is none
CountOf(st, c, rule, t) ==
  LET live == RateLimiter_cleanup(st, t) IN
    IF Key(c, rule) \in DOMAIN live THEN live[Key(c, rule)].count ELSE 0

\* C29: every isAllowed(clientId) call, whatever it returns, raises the
\* client's counter for every configured rule by exactly one (from 0 when
\* the rule's window had ended or had not begun), so a denied call consumes
\* quota under every rule and the counts of a client that keeps calling keep
\* growing until the window ends.
C29_DeniedConsumesQuota ==
  [][(call'.op = "isAllowed") =>
      \A i \in 1..Len(rules) :
        /\ Key(call'.id, rules[i]) \in DOMAIN storage'
        /\ storage'[Key(call'.id, rules[i])].count
             = CountOf(storage, call'.id, rules[i], now) + 1]_vars

\* C30: isAllowed(clientId) returns false if and only if, after the call's
\* increments, the client's count for at least one rule exceeds that rule's
\* maxRequests.
C30_DeniedIffSomeRuleExceeded ==
  [][(call'.op = "isAllowed") =>
      (ret' = BoolRet(FALSE)) <=>
        \E i \in 1..Len(rules) :
          storage'[Key(call'.id, rules[i])].count > rules[i].maxRequests]_vars

\* C31: the limiter keeps one counter record per configured rule per client,
\* whether or not the rules have distinct windowMs: after an isAllowed(client)
\* call the client has as many records as there are rules, and after the
\* first call of a window (the client had no live record under the rule) the
\* rule's record counts 1.
C31_RecordPerRule ==
  [][(call'.op = "isAllowed") =>
      /\ Cardinality({k \in DOMAIN storage' : k[1] = call'.id}) = Len(rules)
      /\ \A i \in 1..Len(rules) :
           (Key(call'.id, rules[i]) \notin DOMAIN RateLimiter_cleanup(storage, now))
             => /\ Key(call'.id, rules[i]) \in DOMAIN storage'
                /\ storage'[Key(call'.id, rules[i])].count = 1]_vars

\* C38: windows are fixed, not sliding.  A call of isAllowed (directly or
\* through the middleware) at time now leaves the resetTime of every record
\* that was live before the call (now <= resetTime) as it was, gives every
\* record it creates the resetTime now + windowMs, and leaves in storage only
\* records with count >= 1 and resetTime >= now.
C38_FixedWindows ==
  [][(call'.op \in {"isAllowed", "rl_middleware"}) =>
      /\ \A k \in DOMAIN storage :
           (now <= storage[k].resetTime) =>
             /\ k \in DOMAIN storage'
             /\ storage'[k].resetTime = storage[k].resetTime
             /\ storage'[k].count >= storage[k].count
      /\ \A k \in DOMAIN storage' :
           /\ (k \notin DOMAIN storage \/ now > storage[k].resetTime) =>
                /\ k[1] = call'.id
                /\ \E i \in 1..Len(rules) :
                     /\ k = Key(call'.id, rules[i])
                     /\ storage'[k].resetTime = now + rules[i].windowMs
           /\ storage'[k].count >= 1
           /\ storage'[k].resetTime >= now]_vars

\* a call counted in a window that was opened at an earlier time: the
\* record's count went up and its resetTime is still that of its creation
C38_Witness ==
  /\ call.op = "isAllowed"
  /\ \E i \in 1..Len(rules) :
       /\ Key(call.id, rules[i]) \in DOMAIN storage
       /\ storage[Key(call.id, rules[i])].count >= 2
       /\ storage[Key(call.id, rules[i])].resetTime < now + rules[i].windowMs
       /\ storage[Key(call.id, rules[i])].resetTime >= now

\* ================================================ claims: brute force

\* C9: isAllowed(identifier) is true while fewer than maxAttempts failures
\* have been recorded for it since its last reset or purge (none at all
\* included), and false once maxAttempts have been, until the lockout ends.
C9_Lock ==
  (call.op = "bfIsAllowed") =>
     ret = BoolRet(bfHist[call.id].count < maxAttempts)

\* a locked identifier refused, after exactly maxAttempts failures
C9_Witness ==
  /\ call.op = "bfIsAllowed"
  /\ ret = BoolRet(FALSE)
  /\ bfHist[call.id].count = maxAttempts
  /\ maxAttempts > 1

\* C10: resetAttempts(identifier) removes the identifier's count and its
\* timestamp and nothing else; from then on isAllowed(identifier) is true
\* and the next recordFailedAttempt(identifier) leaves its count at 1.
C10_Reset ==
  [][ \A c \in Clients :
        /\ (call'.op = "resetAttempts" /\ call'.id = c) =>
             /\ DOMAIN failedAttempts' = DOMAIN failedAttempts \ {c}
             /\ DOMAIN lastAttemptTime' = DOMAIN lastAttemptTime \ {c}
             /\ \A d \in DOMAIN failedAttempts' : failedAttempts'[d] = failedAttempts[d]
             /\ \A d \in DOMAIN lastAttemptTime' : lastAttemptTime'[d] = lastAttemptTime[d]
        /\ (call'.op = "bfIsAllowed" /\ call'.id = c /\ c \in afterReset) =>
             ret' = BoolRet(TRUE)
        /\ (call'.op = "recordFailedAttempt" /\ call'.id = c /\ c \in afterReset) =>
             /\ failedAttempts'[c] = 1
             /\ lastAttemptTime'[c] = now
    ]_vars

\* a locked identifier just reset, another identifier still locked
C10_Witness ==
  /\ call.op = "resetAttempts"
  /\ call.id \in afterReset
  /\ call.id \notin DOMAIN failedAttempts
  /\ \E d \in DOMAIN failedAttempts : d # call.id /\ failedAttempts[d] >= maxAttempts

\* C11: a locked identifier (count >= maxAttempts) unlocks by time alone:
\* isAllowed(identifier) at time now returns false and keeps the record while
\* now - lastAttemptTime <= lockoutDuration (equality included), and returns
\* true once now - lastAttemptTime > lockoutDuration, the identifier then being
\* removed from both maps (count back to 0, not decremented).
C11_UnlockByTime ==
  [][(call'.op = "bfIsAllowed" /\ call'.id \in DOMAIN failedAttempts
        /\ failedAttempts[call'.id] >= maxAttempts) =>
      LET id == call'.id IN
        IF now - lastAttemptTime[id] <= lockoutDuration
        THEN /\ ret' = BoolRet(FALSE)
             /\ id \in DOMAIN failedAttempts'
             /\ failedAttempts'[id] = failedAttempts[id]
             /\ lastAttemptTime'[id] = lastAttemptTime[id]
        ELSE /\ ret' = BoolRet(TRUE)
             /\ id \notin DOMAIN failedAttempts'
             /\ id \notin DOMAIN lastAttemptTime'
             /\ Attempts(failedAttempts', id) = 0]_vars

\* an isAllowed call that found its identifier locked and past the lockout,
\* purged it and returned true
C11_Witness ==
  /\ call.op = "bfIsAllowed"
  /\ call.id \in call.purged
  /\ ret = BoolRet(TRUE)
  /\ call.id \notin DOMAIN failedAttempts

\* C18: BruteForceProtection.middleware() calls next() exactly when
\* isAllowed(client identifier) is true; for a locked identifier it responds
\* with status 403 and does not call next().
C18_LockoutMiddleware ==
  [][(call'.op = "bf_middleware") =>
      LET r == BruteForce_isAllowed(failedAttempts, lastAttemptTime,
                                    getClientIdentifier(call'.req), now,
                                    maxAttempts, lockoutDuration)
          locked == /\ call'.id \in DOMAIN failedAttempts
                    /\ failedAttempts[call'.id] >= maxAttempts
                    /\ now - lastAttemptTime[call'.id] <= lockoutDuration
      IN /\ call'.id = getClientIdentifier(call'.req)
         /\ (ret'.next = 1) = r.allowed
         /\ r.allowed => ret'.status = 0
         /\ locked => (ret'.next = 0 /\ ret'.status = 403)
         /\ ret'.status = 403 => locked]_vars

\* a request from a locked identifier that was answered with 403
C18_Witness ==
  /\ call.op = "bf_middleware"
  /\ call.id \in DOMAIN failedAttempts
  /\ failedAttempts[call.id] >= maxAttempts
  /\ ret.next = 0
  /\ ret.status = 403

\* C32: recordFailedAttempt on an already locked identifier still adds one
\* to the count and sets the time of the last attempt to now, so the lock
\* lasts until lockoutDuration has elapsed since the most recent recorded
\* failure: isAllowed refuses a locked identifier whenever its most recent
\* failure is at most lockoutDuration old, however long ago the lock began.
C32_FailureExtendsLock ==
  [][/\ (call'.op = "recordFailedAttempt" /\ call'.id \in DOMAIN failedAttempts
           /\ failedAttempts[call'.id] >= maxAttempts) =>
          /\ failedAttempts'[call'.id] = failedAttempts[call'.id] + 1
          /\ lastAttemptTime'[call'.id] = now
     /\ (call'.op = "bfIsAllowed" /\ bfHist[call'.id].count >= maxAttempts) =>
          (ret' = BoolRet(FALSE)) <=> (now - bfHist[call'.id].lastAttemptAt <= lockoutDuration)
    ]_vars

\* a failure recorded for an identifier that was locked by an earlier
\* failure: the count is above maxAttempts and the lockout now runs from
\* the later failure
C32_Witness ==
  /\ call.op = "recordFailedAttempt"
  /\ failedAttempts[call.id] > maxAttempts
  /\ call.last > 0
  /\ call.last < now
  /\ now - call.last <= lockoutDuration
  /\ lastAttemptTime[call.id] = now

\* C33: failure counts below maxAttempts never decay with time.  A count in
\* 1..maxAttempts-1 is removed only by resetAttempts of that identifier: no
\* other call and no passage of time removes or lowers it, so the failure
\* that brings the count to maxAttempts locks the identifier however long
\* after the previous failure it is recorded.
C33_NoDecay ==
  [][\A c \in DOMAIN failedAttempts :
       (failedAttempts[c] >= 1 /\ failedAttempts[c] < maxAttempts) =>
         /\ ~(call'.op = "resetAttempts" /\ call'.id = c) =>
              /\ c \in DOMAIN failedAttempts'
              /\ failedAttempts'[c] >= failedAttempts[c]
         /\ (call'.op \in {"bfIsAllowed", "bf_middleware", "tick"}) =>
              /\ failedAttempts'[c] = failedAttempts[c]
              /\ lastAttemptTime'[c] = lastAttemptTime[c]
         /\ (call'.op = "recordFailedAttempt" /\ call'.id = c
               /\ failedAttempts[c] = maxAttempts - 1) =>
              ~BruteForce_isAllowed(failedAttempts', lastAttemptTime', c, now,
                                    maxAttempts, lockoutDuration).allowed
    ]_vars

\* the failure that locked an identifier, recorded more than lockoutDuration
\* after the identifier's previous failure
C33_Witness ==
  /\ call.op = "recordFailedAttempt"
  /\ maxAttempts >= 2
  /\ failedAttempts[call.id] = maxAttempts
  /\ call.last > 0
  /\ now - call.last > lockoutDuration

\* what the calls on identifier y show of the two maps
EntryOf(m, y) == [failedAttempts |-> Attempts(m.failedAttempts, y),
                  recorded |-> y \in DOMAIN m.failedAttempts,
                  lastAttemptTime |-> IF y \in DOMAIN m.lastAttemptTime
                                      THEN m.lastAttemptTime[y] ELSE 0]

\* C39: the sweep made by isAllowed(x) is not observable for another
\* identifier y.  At every later time the result of isAllowed(y), and the
\* effect on y of recordFailedAttempt(y) and of resetAttempts(y), are the
\* same from the maps the call left as from the maps it found; and the count
\* map and the timestamp map have the same key set in every state.
C39_SweepNotObservable ==
  [][/\ DOMAIN failedAttempts' = DOMAIN lastAttemptTime'
     /\ (call'.op = "bfIsAllowed") =>
          \A y \in Clients \ {call'.id} : \A t \in now..MaxTime :
            /\ BruteForce_isAllowed(failedAttempts', lastAttemptTime', y, t,
                                    maxAttempts, lockoutDuration).allowed
                 = BruteForce_isAllowed(failedAttempts, lastAttemptTime, y, t,
                                        maxAttempts, lockoutDuration).allowed
            /\ EntryOf(BruteForce_resetAttempts(failedAttempts', lastAttemptTime', y), y)
                 = EntryOf(BruteForce_resetAttempts(failedAttempts, lastAttemptTime, y), y)
            /\ EntryOf(BruteForce_recordFailedAttempt(failedAttempts', lastAttemptTime',
                                                      y, t), y)
                 = EntryOf(BruteForce_recordFailedAttempt(failedAttempts, lastAttemptTime,
                                                          y, t), y)]_vars

\* ================================================ claims: configuration

\* C28: updateConfig(partial) is all-or-nothing.  It throws exactly when the
\* merged configuration fails validation, in particular whenever the merged
\* bcryptSaltRounds is below 10 or the merged passwordPolicy.minLength is
\* below 8, and then getConfig() returns what it returned before the call;
\* when it returns, every key of partial has the value partial gave it and
\* every other key has the value it had before.
C28_UpdateAllOrNothing ==
  [][(call'.op = "updateConfig") =>
      LET before == getConfig(config, sessionTTL)
          after == getConfig(config', sessionTTL')
          partial == call'.newConfig
          merged == [k \in DOMAIN before \cup DOMAIN partial |->
                       IF k \in DOMAIN partial THEN partial[k] ELSE before[k]]
          invalid == validateConfig(merged, nodeEnv) # ""
      IN /\ (merged.bcryptSaltRounds < 10 \/ merged.passwordPolicy.minLength < 8)
              => invalid
         /\ invalid <=> (ret'.kind = "error")
         /\ (ret'.kind = "error") => after = before
         /\ (ret' = VoidRet) =>
              /\ DOMAIN after = DOMAIN before \cup DOMAIN partial
              /\ \A k \in DOMAIN partial : after[k] = partial[k]
              /\ \A k \in DOMAIN after \ DOMAIN partial : after[k] = before[k]]_vars

\* an update rejected for its bcryptSaltRounds although it also carried an
\* acceptable sessionTTL, after an earlier update had changed the
\* configuration: the earlier values are all still there
C28_Witness ==
  /\ call.op = "updateConfig"
  /\ call.newConfig = [sessionTTL |-> 2, bcryptSaltRounds |-> 9]
  /\ ret = ErrorRet("Configuration update failed: bcryptSaltRounds should be at least 10")
  /\ config.bcryptSaltRounds = 12
  /\ config.passwordPolicy.minLength = 10
  /\ sessionTTL = 1

\* ================================================ claims: password reset

\* C24: verifyResetToken(token) returns the userId the token was generated
\* for exactly when generateResetToken has issued the token, no resetPassword
\* call has consumed it and its expiresAt (the time it was generated at plus
\* passwordResetTTL) is not before now; otherwise it returns null, in
\* particular for a never-issued token and for a token past its
\* passwordResetTTL, whether or not cleanupExpiredTokens has removed it.  The
\* call changes nothing.
C24_VerifyResetToken ==
  [][(call'.op = "verifyResetToken") =>
      LET k == call'.token
          issuedToken == k \in DOMAIN tokenLog
          valid == /\ issuedToken
                   /\ k \notin consumed
                   /\ tokenLog[k].generatedAt + passwordResetTTL >= now
      IN /\ valid => ret' = StringRet(tokenLog[k].userId)
         /\ ~valid => ret' = NullRet
         /\ ~issuedToken => ret' = NullRet
         /\ (issuedToken /\ now > tokenLog[k].generatedAt + passwordResetTTL)
              => ret' = NullRet
         /\ tokens' = tokens]_vars

\* null returned for an expired token that is still in the table (no cleanup
\* has removed it), while a token generated later is in the table too
C24_Witness ==
  /\ call.op = "verifyResetToken"
  /\ ret = NullRet
  /\ call.token \in DOMAIN tokens
  /\ tokens[call.token].expiresAt < now
  /\ call.token \notin consumed
  /\ \E k \in DOMAIN tokens : tokens[k].expiresAt >= now

\* C25: resetPassword(token, newPassword) with a valid token and a password
\* for which the policy enforcer reports errors returns those errors and
\* does not complete the reset (the token stays); with an invalid or expired
\* token it returns exactly ["Invalid or expired reset token"]; it returns
\* the empty list only when the token is valid and the enforcer reports no
\* error.
C25_ResetPasswordErrors ==
  [][(call'.op = "resetPassword") =>
      LET valid == PasswordReset_verifyResetToken(tokens, call'.token, now) # NullRet
          reported == PasswordPolicyEnforcer_enforcePolicy(call'.newPassword,
                                                           config.passwordPolicy).value
      IN /\ (valid /\ reported # << >>) =>
              /\ ret' = ListRet(reported)
              /\ tokens' = tokens
         /\ ~valid => ret' = ListRet(<< "Invalid or expired reset token" >>)
         /\ (ret' = ListRet(<< >>)) => (valid /\ reported = << >>)]_vars

Elements(a) == {a[i] : i \in 1..Len(a)}

C27_AuthenticateFlow ==
  [][(call'.op = "authenticate") =>
      \A rl \in {RateLimiter_isAllowed(storage, rules, call'.id, now)} :
      LET req == call'.req
          id == getClientIdentifier(req)
          missing == req.body.username = "" \/ req.body.password = ""
          unknown == call'.found = "null"
          wrong == call'.found = "user" /\ req.body.password # "pw"
          valid == call'.found = "user" /\ req.body.password = "pw"
          bfSame == failedAttempts' = failedAttempts /\ lastAttemptTime' = lastAttemptTime
          others == /\ \A c \in DOMAIN failedAttempts \ {id} :
                         c \in DOMAIN failedAttempts' /\ failedAttempts'[c] = failedAttempts[c]
                    /\ DOMAIN failedAttempts' \subseteq DOMAIN failedAttempts \cup {id}
      IN /\ call'.id = id
         /\ call'.trace[1] = "isAllowed"
         /\ storage' = rl.storage
         /\ ~rl.allowed =>
              /\ ret'.status = 429 /\ ret'.next = 0
              /\ call'.trace = << "isAllowed" >>
              /\ bfSame
         /\ (rl.allowed /\ ~missing /\ (unknown \/ wrong)) =>
              /\ ret'.status = 401 /\ ret'.next = 0
              /\ failedAttempts'[id] = Attempts(failedAttempts, id) + 1
              /\ lastAttemptTime'[id] = now
              /\ others
              /\ call'.trace = << "isAllowed", "findUser", "recordFailedAttempt" >>
         /\ (rl.allowed /\ ~missing /\ valid) =>
              /\ ret'.next = 1 /\ ret'.status = 0
              /\ id \notin DOMAIN failedAttempts'
              /\ id \notin DOMAIN lastAttemptTime'
              /\ others
              /\ call'.trace = << "isAllowed", "findUser", "resetAttempts", "next" >>
         /\ (rl.allowed /\ missing) =>
              /\ ret'.status = 400 /\ ret'.next = 0
              /\ bfSame
              /\ call'.trace = << "isAllowed" >>]_vars

\* a login with valid credentials, by a client with failed attempts on
\* record, that cleared the record and went on to next()
C27_Witness ==
  /\ call.op = "authenticate"
  /\ ret.next = 1
  /\ bfHist[call.id].count = 0
  /\ call.id \in afterReset
  /\ call.id \notin DOMAIN failedAttempts
  /\ \E c \in DOMAIN failedAttempts : failedAttempts[c] >= 1

\* C37: authenticate never consults the brute-force lock.  What is done with
\* a request (response, next, calls made) is the same whatever the two
\* brute-force maps hold; a locked client that passes the rate limiter with
\* valid credentials is authenticated and its counter is reset; a locked
\* client that passes the rate limiter with wrong credentials gets 401, and
\* the failure extends its lock.
C37_LockNotConsulted ==
  [][(call'.op = "authenticate") =>
      \A rl \in {RateLimiter_isAllowed(storage, rules, call'.id, now)} :
      \A clean \in {AuthHelpers_authenticate(storage, rules, << >>, << >>,
                                             call'.req, call'.found, now)} :
      LET req == call'.req
          id == call'.id
          locked == ~BruteForce_isAllowed(failedAttempts, lastAttemptTime, id, now,
                                          maxAttempts, lockoutDuration).allowed
          present == req.body.username # "" /\ req.body.password # ""
          valid == call'.found = "user" /\ verifyPassword(req.body.password,
                                                          KnownUser.password)
          wrong == \/ call'.found = "null"
                   \/ call'.found = "user" /\ ~verifyPassword(req.body.password,
                                                              KnownUser.password)
      IN /\ ret' = clean.ret
         /\ call'.trace = clean.trace
         /\ storage' = clean.storage
         /\ (locked /\ rl.allowed /\ present /\ valid) =>
              /\ ret' = HandledRet(1, 0, "")
              /\ id \notin DOMAIN failedAttempts'
              /\ id \notin DOMAIN lastAttemptTime'
         /\ (locked /\ rl.allowed /\ present /\ wrong) =>
              /\ ret' = HandledRet(0, 401, "Invalid credentials")
              /\ failedAttempts'[id] = failedAttempts[id] + 1
              /\ lastAttemptTime'[id] = now
              /\ \A t \in now..(now + lockoutDuration) :
                   ~BruteForce_isAllowed(failedAttempts', lastAttemptTime', id, t,
                                         maxAttempts, lockoutDuration).allowed]_vars

\* a client whose lock was in force, authenticated with valid credentials:
\* next() was called and the failure record is gone
C37_Witness ==
  /\ call.op = "authenticate"
  /\ call.locked
  /\ ret = HandledRet(1, 0, "")
  /\ call.id \notin DOMAIN failedAttempts

====
